---- MODULE Spec2Model ----
(***************************************************************************)
(* A model of the crypto_quant trading pipeline: the orderbook store       *)
(* (OrderbookManager, two revisions), the order execution gateway          *)
(* (OrderExecutor), the three strategies and the strategy engine (two      *)
(* revisions).  Prices and quantities are small integers; strings are      *)
(* TLA+ strings built by concatenation as the code builds them.            *)
(***************************************************************************)
EXTENDS Integers, Sequences, FiniteSets, TLC

VARIABLES
    orderbooks_,      \* orderbook_manager.cpp: std::vector<orderbook_t>
    orderbooks_map,   \* strategy_engine_impl.cpp: unordered_map<symbol_t, orderbook_t>
    initialized_,     \* strategy_engine_impl.cpp: OrderbookManager::initialized_
    lastUpdate,       \* history: per symbol, the argument of the last updateOrderbook that returned
    storeCall,        \* the last store call and what it returned
    status_,          \* OrderExecutor::status_
    api_key_,         \* OrderExecutor::api_key_
    api_secret_,      \* OrderExecutor::api_secret_
    risk_params_,     \* OrderExecutor::risk_params_
    order_history_,   \* OrderExecutor::order_history_
    next_order_id_,   \* OrderExecutor::next_order_id_
    proc,             \* the calling thread: "running", "aborted" or "deadlocked"
    call,             \* the last gateway call: arguments, response, requests sent, result
    strategy,         \* the strategy objects driven directly, one of each class
    accepted,         \* history: per symbol, the mid-prices of the snapshots with both sides non-empty
    stratCall,        \* the last strategy call and the signals it returned
    engine,           \* strategy_engine.cpp: StrategyEngine::strategy_, status_
    engineImpl,       \* strategy_engine_impl.cpp: StrategyEngine::strategy_, initialized_, status_
    held,             \* the strategy objects handed to the engine of strategy_engine.cpp
    heldImpl,         \* the strategy objects handed to the engine of strategy_engine_impl.cpp
    swapped,          \* per engine: setStrategy replaced the strategy of a RUNNING engine, no start() since
    engineCall,       \* the last engine call
    fetcher,          \* MarketDataFetcher: its members and the holder of its mutex
    wsClient,         \* the websocket_client the fetcher created, and its worker thread
    controller,       \* the threads that call the fetcher: where each is in its call
    poller,           \* the ingestion threads start() has created
    delivery,         \* the last invocation of the registered callback
    fetcherProc,      \* the process of the fetcher: "running" or "terminated"
    joins,            \* per ingestion thread: the join() calls made on it
    quiet,            \* a stop() has returned; no start() was called since or is under way
    stopCompleted,    \* a stop() has returned
    gwThread,         \* the threads that call the gateway: where each is in its call
    gwMutex,          \* the holder of the gateway's mutex_
    sentIn,           \* status_ at the moment the last order request was sent
    executorImpl      \* the OrderExecutor of strategy_engine_impl.cpp and its caller

storeVars == <<orderbooks_, orderbooks_map, initialized_, lastUpdate, storeCall>>
gwVars == <<status_, api_key_, api_secret_, risk_params_, order_history_,
            next_order_id_, proc, call>>
strategyVars == <<strategy, accepted, stratCall>>
engineVars == <<engine, engineImpl, held, heldImpl, swapped, engineCall>>
fetcherVars == <<fetcher, wsClient, controller, poller, delivery, fetcherProc, joins,
                 quiet, stopCompleted>>
raceVars == <<gwThread, gwMutex, sentIn>>
vars == <<storeVars, gwVars, strategyVars, engineVars, fetcherVars, raceVars, executorImpl>>
outsideGateway == <<storeVars, strategyVars, engineVars, fetcherVars, raceVars, executorImpl>>
outsideStore == <<gwVars, strategyVars, engineVars, fetcherVars, raceVars, executorImpl>>
outsideStrategy == <<storeVars, gwVars, engineVars, fetcherVars, raceVars, executorImpl>>
outsideEngine == <<storeVars, gwVars, strategyVars, fetcherVars, raceVars, executorImpl>>
outsideFetcher == <<storeVars, gwVars, strategyVars, engineVars, raceVars, executorImpl>>
outsideRace == <<storeVars, strategyVars, engineVars, fetcherVars, risk_params_,
                 next_order_id_, proc, call, executorImpl>>
outsideExecutor == <<storeVars, gwVars, strategyVars, fetcherVars, raceVars>>

\* ---------------------------------------------------------------- bounds
MaxLevels == 2      \* levels per side of the snapshots fed to the store
MaxFeedTime == 1    \* snapshot timestamps (ms) 1..MaxFeedTime
MaxTime == 2        \* clock readings (ms) of the gateway 1..MaxTime
MaxQty == 2         \* order quantities 1..MaxQty
MaxOrderId == 1     \* exchange order ids 1..MaxOrderId
MaxPolledId == 2    \* order ids of the order-lifecycle specification 1..MaxPolledId
MaxTicks == 4       \* samples a strategy holds over all symbols
MaxEngineTicks == 2 \* samples a strategy handed to an engine holds
MaxSpawns == 2      \* ingestion threads a fetcher creates

\* ------------------------------------------------------- market data types
SYMBOL_BTC_USDT == 0
SYMBOL_ETH_USDT == 1
SYMBOL_BTC_ETH == 2
Symbols == {SYMBOL_BTC_USDT, SYMBOL_ETH_USDT, SYMBOL_BTC_ETH}
NumSymbols == 3
Times == 1..MaxTime
FeedTimes == 1..MaxFeedTime

price_level_t(p, q, ts) == [price |-> p, quantity |-> q, timestamp |-> ts]

\* orderbook_t; bids and asks list the first levels of the 20-entry arrays,
\* the entries after them are zero.
orderbook_t(sym, bs, as, nb, na, ts) ==
    [symbol |-> sym, bids |-> bs, asks |-> as,
     bid_count |-> nb, ask_count |-> na, timestamp |-> ts]

\* orderbook_t{} : every field zero
ZeroBook == orderbook_t(SYMBOL_BTC_USDT, <<>>, <<>>, 0, 0, 0)

\* The sides a feed delivers: best price first, n levels
BidSide(n, ts) == [i \in 1..n |-> price_level_t(MaxLevels + 1 - i, i, ts)]
AskSide(n, ts) == [i \in 1..n |-> price_level_t(MaxLevels + i, i, ts)]
ZeroPriceSide(ts) == <<price_level_t(0, 1, ts)>>

\* The snapshots fed to the store: one side or both empty, a best price of
\* 0, and 1..MaxLevels levels on both sides.
FeedSides(ts) ==
    {<<(<<>>), (<<>>)>>, <<BidSide(1, ts), (<<>>)>>, <<(<<>>), AskSide(1, ts)>>,
     <<ZeroPriceSide(ts), AskSide(1, ts)>>, <<BidSide(1, ts), ZeroPriceSide(ts)>>}
    \cup {<<BidSide(n, ts), AskSide(n, ts)>> : n \in 1..MaxLevels}

FeedBooks ==
    UNION {{orderbook_t(sym, p[1], p[2], Len(p[1]), Len(p[2]), ts) : p \in FeedSides(ts)} :
           sym \in Symbols, ts \in FeedTimes}

\* ------------------------------------------- OrderbookManager (vector revision)
\* The constructor: three zeroed books stamped with the construction time.
VecConstruct(now) ==
    [i \in 1..NumSymbols |-> orderbook_t(SYMBOL_BTC_USDT, <<>>, <<>>, 0, 0, now)]

VecInRange(books, sym) == sym >= 0 /\ sym < Len(books)

VecUpdate(books, ob) ==
    IF VecInRange(books, ob.symbol)
    THEN [books EXCEPT ![ob.symbol + 1] = ob]
    ELSE books

VecGet(books, sym) ==
    IF VecInRange(books, sym) THEN books[sym + 1] ELSE ZeroBook

VecBestBid(books, sym) ==
    IF VecInRange(books, sym) /\ books[sym + 1].bid_count > 0
    THEN books[sym + 1].bids[1].price ELSE 0

VecBestAsk(books, sym) ==
    IF VecInRange(books, sym) /\ books[sym + 1].ask_count > 0
    THEN books[sym + 1].asks[1].price ELSE 0

\* --------------------------------------------- OrderbookManager (map revision)
MapUpdate(m, ob) ==
    [s \in DOMAIN m \cup {ob.symbol} |-> IF s = ob.symbol THEN ob ELSE m[s]]

MapGet(m, sym) == IF sym \in DOMAIN m THEN m[sym] ELSE ZeroBook

MapBestBid(m, sym) ==
    IF MapGet(m, sym).bid_count > 0 THEN MapGet(m, sym).bids[1].price ELSE 0

MapBestAsk(m, sym) ==
    IF MapGet(m, sym).ask_count > 0 THEN MapGet(m, sym).asks[1].price ELSE 0

EmptyMap == [s \in {} |-> ZeroBook]
NoBook == [symbol |-> -1]

StoreInit ==
    /\ \E now \in FeedTimes : orderbooks_ = VecConstruct(now)
    /\ orderbooks_map = EmptyMap
    /\ initialized_ = FALSE
    /\ lastUpdate = [s \in Symbols |-> NoBook]
    /\ storeCall = [op |-> "idle", symbol |-> 0, vec |-> ZeroBook, map |-> ZeroBook,
                    bid |-> <<0, 0>>, ask |-> <<0, 0>>, levels |-> 0,
                    value |-> <<0, 0>>, beyond |-> FALSE, stream |-> <<>>]

\* Every store operation holds mutex_ from entry to return (lock_guard), so
\* each is one atomic step; both revisions are driven with the same calls by
\* a caller that takes each answer before its next call.
StoreRet(op, sym) ==
    [op |-> op, symbol |-> sym, vec |-> ZeroBook, map |-> ZeroBook,
     bid |-> <<0, 0>>, ask |-> <<0, 0>>, levels |-> 0,
     value |-> <<0, 0>>, beyond |-> FALSE, stream |-> <<>>]

OrderbookManager_initialize ==
    /\ storeCall.op = "idle"
    /\ initialized_' = TRUE
    /\ storeCall' = StoreRet("initialize", 0)
    /\ UNCHANGED <<orderbooks_, orderbooks_map, lastUpdate>>

OrderbookManager_cleanup ==
    /\ storeCall.op = "idle"
    /\ orderbooks_' = <<>>
    /\ orderbooks_map' = EmptyMap
    /\ initialized_' = FALSE
    /\ storeCall' = StoreRet("cleanup", 0)
    /\ UNCHANGED lastUpdate

updateOrderbook(ob) ==
    /\ storeCall.op = "idle"
    /\ orderbooks_' = VecUpdate(orderbooks_, ob)
    /\ orderbooks_map' = MapUpdate(orderbooks_map, ob)
    /\ lastUpdate' = [lastUpdate EXCEPT ![ob.symbol] = ob]
    /\ storeCall' = StoreRet("updateOrderbook", ob.symbol)
    /\ UNCHANGED initialized_

getOrderbook(sym) ==
    /\ storeCall.op = "idle"
    /\ storeCall' = [StoreRet("getOrderbook", sym) EXCEPT
                        !.vec = VecGet(orderbooks_, sym),
                        !.map = MapGet(orderbooks_map, sym)]
    /\ UNCHANGED <<orderbooks_, orderbooks_map, initialized_, lastUpdate>>

getBestBidAsk(sym) ==
    /\ storeCall.op = "idle"
    /\ storeCall' = [StoreRet("getBestBidAsk", sym) EXCEPT
                        !.bid = <<VecBestBid(orderbooks_, sym), MapBestBid(orderbooks_map, sym)>>,
                        !.ask = <<VecBestAsk(orderbooks_, sym), MapBestAsk(orderbooks_map, sym)>>]
    /\ UNCHANGED <<orderbooks_, orderbooks_map, initialized_, lastUpdate>>

\* ------------------------------------------------------------ gateway types
RiskParams(maxOrder) ==
    [max_position_size |-> 10000, max_daily_loss |-> 1000,
     max_order_size |-> maxOrder, max_orders_per_minute |-> 60]
DefaultRiskParams == RiskParams(1000)

\* ExecutionResult()
ExecutionResult ==
    [status |-> "FAILED", order_id |-> 0, filled_quantity |-> 0,
     average_price |-> 0, error_message |-> ""]

BINANCE_BASE_URL == "https://api.binance.com"

symbol_to_binance(symbol) ==
    CASE symbol = SYMBOL_BTC_USDT -> "BTCUSDT"
      [] symbol = SYMBOL_ETH_USDT -> "ETHUSDT"
      [] symbol = SYMBOL_BTC_ETH -> "BTCETH"
      [] OTHER -> "BTCUSDT"

\* ------------------------------------------------- response bodies (JSON)
\* A member of a parsed body: absent, a number, a string, or another JSON
\* type (null, array, object).
Abs == [t |-> "abs", n |-> 0, s |-> ""]
Num(n) == [t |-> "num", n |-> n, s |-> ""]
Str(s) == [t |-> "str", n |-> 0, s |-> s]
Other == [t |-> "other", n |-> 0, s |-> ""]

\* A body: parse is FALSE for text that is not JSON (also the empty body of
\* a failed transfer); a JSON value that is no object has every member absent.
Body(acct, bal, oid, code, msg, st, qty, px) ==
    [parse |-> TRUE, accountType |-> acct, balances |-> bal, orderId |-> oid,
     code |-> code, msg |-> msg, status |-> st, executedQty |-> qty, price |-> px]
EmptyObject == Body(Abs, [t |-> "abs", items |-> <<>>], Abs, Abs, Abs, Abs, Abs, Abs)
BadBody == [EmptyObject EXCEPT !.parse = FALSE]

\* j.contains(key)
Contains(f) == f.t # "abs"
\* j.value(key, <number>) and j[key].get<uint64_t>() throw type_error unless
\* the member is a number; j.value(key, <string>) and get<std::string>()
\* throw unless it is a string.
ThrowsAsNumber(f) == f.t \notin {"abs", "num"}
ThrowsAsString(f) == f.t \notin {"abs", "str"}
ValueNum(f, default) == IF f.t = "num" THEN f.n ELSE default
ValueStr(f, default) == IF f.t = "str" THEN f.s ELSE default

\* std::stod on the decimal texts the exchange sends; any other text throws
\* std::invalid_argument.
DecimalTexts == {"0", "0.00000000", "1.00000000"}
StodThrows(s) == s \notin DecimalTexts
stod(s) == IF s = "1.00000000" THEN 1 ELSE 0

\* ------------------------------------------------------- request signing
\* hmac_sha256: the lowercase hex digest, kept as the pair it is computed from.
hmac_sha256(key, data) == "hmac{" \o key \o "}{" \o data \o "}"

\* std::fixed << std::setprecision(8) of a whole number
Fixed8(x) == ToString(x) \o ".00000000"

SignTimestampFirst(query_string, secret, now) ==
    LET full == "timestamp=" \o ToString(now)
                \o (IF query_string # "" THEN "&" \o query_string ELSE "")
    IN  full \o "&signature=" \o hmac_sha256(secret, full)

\* send_signed_request, lines 516-526: the query put on the wire
SignedQuery(query_string, secret, now) ==
    LET q == IF query_string # "" THEN query_string \o "&" ELSE query_string
        full == q \o "timestamp=" \o ToString(now)
    IN  full \o "&signature=" \o hmac_sha256(secret, full)

\* send_signed_request, lines 528-550: the request handed to curl
Request(method, endpoint, query_string, key, secret, now) ==
    [method |-> method,
     url |-> BINANCE_BASE_URL \o endpoint \o "?" \o SignedQuery(query_string, secret, now),
     headers |-> <<"X-MBX-APIKEY: " \o key, "Content-Type: application/json">>]

PerformWithRetry(req, curlOk) == IF curlOk THEN <<req, req>> ELSE <<>>

\* send_signed_request, lines 509-514 and 552: one curl_easy_perform per
\* call, none when curl_easy_init fails
Perform(req, curlOk) == IF curlOk THEN <<req>> ELSE <<>>

\* What send_signed_request returns: the body read, "" when curl_easy_init
\* fails.
Received(body, curlOk) == IF curlOk THEN body ELSE BadBody

\* ------------------------------------------------------------ OrderExecutor
GwInit ==
    /\ status_ = "IDLE"
    /\ api_key_ = ""
    /\ api_secret_ = ""
    /\ risk_params_ = DefaultRiskParams
    /\ order_history_ = <<>>
    /\ next_order_id_ = 1
    /\ proc = "running"
    /\ call = [op |-> "idle", symbol |-> 0, side |-> 0, price |-> 0, quantity |-> 0,
               order_id |-> 0, max_count |-> 0, bodies |-> <<>>, sent |-> <<>>,
               outcome |-> "returned", ok |-> FALSE, value |-> 0,
               result |-> ExecutionResult, ids |-> {}]

\* The record of a call: outcome is "returned", "threw" (an exception left
\* the operation), "aborted" (the process died) or "deadlocked"; bodies holds
\* the body connect and submitOrder read.
Call(op) ==
    [op |-> op, symbol |-> 0, side |-> 0, price |-> 0, quantity |-> 0,
     order_id |-> 0, max_count |-> 0, bodies |-> <<>>, sent |-> <<>>,
     outcome |-> "returned", ok |-> FALSE, value |-> 0,
     result |-> ExecutionResult, ids |-> {}]

\* The transfer of one send_signed_request: "ok", "init_failed"
\* (curl_easy_init returns null) or "free_aborts": hmac_sha256 passes the
\* static buffer HMAC() returned to OPENSSL_free, which is undefined and, where
\* the allocator checks the pointer, ends the process before the request is
\* sent.
Transports == {"ok", "init_failed", "free_aborts"}
CurlOk(transport) == transport # "init_failed"

\* The caller is alive and between two calls.
Ready == proc = "running" /\ call.op = "idle"

\* order_history_[id] = r
Put(h, id, r) == [k \in DOMAIN h \cup {id} |-> IF k = id THEN r ELSE h[k]]

OrderExecutor_initialize ==
    /\ Ready
    /\ status_' = "IDLE"
    /\ next_order_id_' = 1
    /\ call' = Call("initialize")
    /\ UNCHANGED <<api_key_, api_secret_, risk_params_, order_history_, proc>>

OrderExecutor_cleanup ==
    /\ Ready
    /\ order_history_' = <<>>
    /\ status_' = "IDLE"
    /\ call' = Call("cleanup")
    /\ UNCHANGED <<api_key_, api_secret_, risk_params_, next_order_id_, proc>>

setRiskParams(params) ==
    /\ Ready
    /\ risk_params_' = params
    /\ call' = Call("setRiskParams")
    /\ UNCHANGED <<status_, api_key_, api_secret_, order_history_, next_order_id_, proc>>

setApiCredentials(key, secret) ==
    /\ Ready
    /\ api_key_' = key
    /\ api_secret_' = secret
    /\ call' = Call("setApiCredentials")
    /\ UNCHANGED <<status_, risk_params_, order_history_, next_order_id_, proc>>

CredentialsMissingBoth(key, secret) == key = "" /\ secret = ""

\* connect, line 81
CredentialsMissing(key, secret) == key = "" \/ secret = ""

\* connect, lines 93-117: the status set and the value returned for a body;
\* only json::parse_error is caught, a type_error of j.value leaves connect
\* with the status still CONNECTING.
ConnectParse(j) ==
    IF ~j.parse THEN [status |-> "ERROR", ok |-> FALSE, outcome |-> "returned"]
    ELSE IF Contains(j.accountType)
    THEN [status |-> "CONNECTED", ok |-> TRUE, outcome |-> "returned"]
    ELSE IF Contains(j.code) /\ (ThrowsAsNumber(j.code) \/ ThrowsAsString(j.msg))
    THEN [status |-> "CONNECTING", ok |-> FALSE, outcome |-> "threw"]
    ELSE [status |-> "ERROR", ok |-> FALSE, outcome |-> "returned"]

connect(now, body, transport) ==
    /\ Ready
    /\ IF CredentialsMissing(api_key_, api_secret_)
       THEN /\ status_' = "ERROR"
            /\ call' = Call("connect")
            /\ UNCHANGED proc
       ELSE IF transport = "free_aborts"
       THEN /\ status_' = "CONNECTING"
            /\ proc' = "aborted"
            /\ call' = [Call("connect") EXCEPT !.outcome = "aborted"]
       ELSE LET req == Request("GET", "/api/v3/account", "", api_key_, api_secret_, now)
                r == ConnectParse(Received(body, CurlOk(transport)))
            IN  /\ status_' = r.status
                /\ call' = [Call("connect") EXCEPT
                               !.bodies = <<body>>,
                               !.sent = Perform(req, CurlOk(transport)),
                               !.ok = r.ok, !.outcome = r.outcome]
                /\ UNCHANGED proc
    /\ UNCHANGED <<api_key_, api_secret_, risk_params_, order_history_, next_order_id_>>

disconnectWhenConnected ==
    /\ Ready
    /\ status_' = IF status_ = "CONNECTED" THEN "DISCONNECTED" ELSE status_
    /\ call' = Call("disconnect")
    /\ UNCHANGED <<api_key_, api_secret_, risk_params_, order_history_, next_order_id_, proc>>

disconnect ==
    /\ Ready
    /\ status_' = "DISCONNECTED"
    /\ call' = Call("disconnect")
    /\ UNCHANGED <<api_key_, api_secret_, risk_params_, order_history_, next_order_id_, proc>>

RiskCheckPosition(quantity, risk) == quantity > risk.max_position_size

\* submitOrder, line 147
RiskCheckFails(quantity, risk) == quantity > risk.max_order_size

\* submitOrder, lines 155-169: the query of the order
OrderQuery(symbol, side, price, quantity) ==
    LET side_str == IF side = 0 THEN "BUY" ELSE "SELL"
        type_str == IF price > 0 THEN "LIMIT" ELSE "MARKET"
        query == "symbol=" \o symbol_to_binance(symbol) \o "&side=" \o side_str
                 \o "&type=" \o type_str \o "&quantity=" \o Fixed8(quantity)
    IN  IF type_str = "LIMIT"
        THEN query \o "&timeInForce=GTC" \o "&price=" \o Fixed8(price)
        ELSE query

\* submitOrder, lines 174-230: the result for a body and whether line 204
\* recorded it.  Every exception is caught; one thrown after line 183 leaves
\* the status SUCCESS and skips line 204.
SubmitParse(j, price, quantity) ==
    LET failed(m) == [result |-> [ExecutionResult EXCEPT !.error_message = m],
                      recorded |-> FALSE]
        r1 == [ExecutionResult EXCEPT !.status = "SUCCESS", !.order_id = j.orderId.n]
        r2 == [r1 EXCEPT !.filled_quantity = ValueNum(j.executedQty, 0)]
        r3 == [r2 EXCEPT !.average_price = ValueNum(j.price, price)]
        thrown(r) == [result |-> [r EXCEPT !.error_message = "Exception: type_error"],
                      recorded |-> FALSE]
    IN  IF ~j.parse THEN failed("Failed to parse response: parse_error")
        ELSE IF Contains(j.orderId)
        THEN IF j.orderId.t # "num" THEN failed("Exception: type_error")
             ELSE IF ThrowsAsNumber(j.executedQty) THEN thrown(r1)
             ELSE IF ThrowsAsNumber(j.price) THEN thrown(r2)
             ELSE IF ~Contains(j.status) THEN [result |-> r3, recorded |-> TRUE]
             ELSE IF j.status.t # "str" THEN thrown(r3)
             ELSE IF j.status.s = "FILLED"
             THEN [result |-> [r3 EXCEPT !.filled_quantity = quantity,
                                         !.average_price = ValueNum(j.price, price)],
                   recorded |-> TRUE]
             ELSE IF j.status.s = "PARTIALLY_FILLED"
             THEN [result |-> [r3 EXCEPT !.status = "PARTIAL",
                                         !.filled_quantity = ValueNum(j.executedQty, 0)],
                   recorded |-> TRUE]
             ELSE [result |-> r3, recorded |-> TRUE]
        ELSE IF Contains(j.code)
        THEN IF ThrowsAsString(j.msg) \/ ThrowsAsNumber(j.code)
             THEN failed("Exception: type_error")
             ELSE failed(ValueStr(j.msg, "Unknown error"))
        ELSE failed("Invalid response from exchange")

HistoryAfterSubmitAlways(history, p) == Put(history, p.result.order_id, p.result)

\* submitOrder, line 204
HistoryAfterSubmit(history, p) ==
    IF p.recorded THEN Put(history, p.result.order_id, p.result) ELSE history

submitOrder(symbol, side, price, quantity, now, body, transport) ==
    /\ Ready
    /\ LET c == [Call("submitOrder") EXCEPT !.symbol = symbol, !.side = side,
                                            !.price = price, !.quantity = quantity]
       IN  IF status_ # "CONNECTED"
           THEN /\ call' = [c EXCEPT !.result.error_message = "Not connected to exchange"]
                /\ UNCHANGED <<order_history_, proc>>
           ELSE IF RiskCheckFails(quantity, risk_params_)
           THEN /\ call' = [c EXCEPT !.result.error_message =
                                         "Order size exceeds maximum allowed"]
                /\ UNCHANGED <<order_history_, proc>>
           ELSE IF transport = "free_aborts"
           THEN /\ proc' = "aborted"
                /\ call' = [c EXCEPT !.outcome = "aborted"]
                /\ UNCHANGED order_history_
           ELSE LET req == Request("POST", "/api/v3/order",
                                   OrderQuery(symbol, side, price, quantity),
                                   api_key_, api_secret_, now)
                    p == SubmitParse(Received(body, CurlOk(transport)), price, quantity)
                IN  /\ order_history_' = HistoryAfterSubmit(order_history_, p)
                    /\ call' = [c EXCEPT !.bodies = <<body>>,
                                         !.sent = Perform(req, CurlOk(transport)),
                                         !.result = p.result]
                    /\ UNCHANGED proc
    /\ UNCHANGED <<status_, api_key_, api_secret_, risk_params_, next_order_id_>>

HistoryAfterPollAlone(history, order_id, r) == [k \in {order_id} |-> r]

\* getOrderStatus, line 418: it->second = result
HistoryAfterPoll(history, order_id, r) == Put(history, order_id, r)

\* getOrderStatus, lines 381-429, for an order found in the history: the
\* result, the history after line 418 and whether an exception left the
\* call (only json::parse_error is caught).
StatusParse(history, order_id, j) ==
    LET ret(r) == [result |-> r, history |-> history, outcome |-> "returned"]
        threw == [result |-> ExecutionResult, history |-> history, outcome |-> "threw"]
        qty == ValueStr(j.executedQty, "0")
        px == ValueStr(j.price, "0")
        st == ValueStr(j.status, "")
        r1 == [ExecutionResult EXCEPT !.order_id = j.orderId.n,
                                      !.filled_quantity = stod(qty)]
        upd(r) == [result |-> r, history |-> HistoryAfterPoll(history, order_id, r),
                   outcome |-> "returned"]
    IN  IF ~j.parse THEN ret([ExecutionResult EXCEPT !.error_message = "Parse error"])
        ELSE IF Contains(j.orderId)
        THEN IF j.orderId.t # "num" \/ ThrowsAsString(j.executedQty) \/ StodThrows(qty)
                \/ ThrowsAsString(j.status)
             THEN threw
             ELSE IF st \in {"FILLED", "PARTIALLY_FILLED"}
             THEN IF ThrowsAsString(j.price) \/ StodThrows(px) THEN threw
                  ELSE upd([r1 EXCEPT !.status = IF st = "FILLED" THEN "SUCCESS"
                                                                   ELSE "PARTIAL",
                                      !.average_price = stod(px)])
             ELSE IF st \in {"CANCELED", "REJECTED"}
             THEN upd([r1 EXCEPT !.error_message = "Order " \o st])
             ELSE upd(r1)
        ELSE IF Contains(j.code)
        THEN IF ThrowsAsString(j.msg) THEN threw
             ELSE ret([ExecutionResult EXCEPT
                          !.error_message = ValueStr(j.msg, "Unknown error")])
        ELSE ret(ExecutionResult)

\* getOrderStatus, lines 361-438, after its lock_guard has the mutex
StatusCall(status, history, order_id, now, body, transport, key, secret) ==
    LET none(m, o) == [result |-> [ExecutionResult EXCEPT !.error_message = m],
                       history |-> history, outcome |-> o, sent |-> <<>>]
    IN  IF status # "CONNECTED" THEN none("Not connected to exchange", "returned")
        ELSE IF order_id \notin DOMAIN history THEN none("Order not found", "returned")
        ELSE IF transport = "free_aborts" THEN none("", "aborted")
        ELSE LET req == Request("GET", "/api/v3/order",
                                "symbol=BTCUSDT" \o "&orderId=" \o ToString(order_id),
                                key, secret, now)
                 p == StatusParse(history, order_id, Received(body, CurlOk(transport)))
             IN  [result |-> p.result, history |-> p.history, outcome |-> p.outcome,
                  sent |-> Perform(req, CurlOk(transport))]

getOrderStatus(order_id, now, body, transport) ==
    /\ Ready
    /\ LET g == StatusCall(status_, order_history_, order_id, now, body, transport,
                           api_key_, api_secret_)
       IN  /\ order_history_' = g.history
           /\ proc' = IF g.outcome = "aborted" THEN "aborted" ELSE proc
           /\ call' = [Call("getOrderStatus") EXCEPT
                          !.order_id = order_id, !.sent = g.sent,
                          !.outcome = g.outcome, !.result = g.result]
    /\ UNCHANGED <<status_, api_key_, api_secret_, risk_params_, next_order_id_>>

\* cancelOrder, lines 271-298: the value returned for the body of the DELETE
CancelParse(j) ==
    IF ~j.parse THEN [ok |-> FALSE, cancelled |-> FALSE, outcome |-> "returned"]
    ELSE IF Contains(j.orderId)
    THEN [ok |-> TRUE, cancelled |-> TRUE, outcome |-> "returned"]
    ELSE IF Contains(j.code) /\ (ThrowsAsNumber(j.code) \/ ThrowsAsString(j.msg))
    THEN [ok |-> FALSE, cancelled |-> FALSE, outcome |-> "threw"]
    ELSE [ok |-> FALSE, cancelled |-> FALSE, outcome |-> "returned"]

\* cancelOrder holds mutex_ (line 243) when it calls getOrderStatus
\* (line 255), whose lock_guard locks the same non-recursive mutex again:
\* undefined; relock is what the build makes of it, "deadlock" or "proceed"
\* (the second lock is granted).
Relocks == {"deadlock", "proceed"}

cancelOrder(order_id, now, body1, body2, transport1, transport2, relock) ==
    /\ Ready
    /\ LET c == [Call("cancelOrder") EXCEPT !.order_id = order_id]
           g == StatusCall(status_, order_history_, order_id, now, body1, transport1,
                           api_key_, api_secret_)
           req == Request("DELETE", "/api/v3/order",
                          "symbol=BTCUSDT" \o "&orderId=" \o ToString(order_id),
                          api_key_, api_secret_, now)
           p == CancelParse(Received(body2, CurlOk(transport2)))
           cancelled == [g.history[order_id] EXCEPT !.status = "FAILED",
                                                    !.error_message = "Order cancelled"]
       IN  IF status_ # "CONNECTED"
           THEN /\ call' = c
                /\ UNCHANGED <<order_history_, proc>>
           ELSE IF relock = "deadlock"
           THEN /\ proc' = "deadlocked"
                /\ call' = [c EXCEPT !.outcome = "deadlocked"]
                /\ UNCHANGED order_history_
           ELSE IF g.outcome # "returned" \/ g.result.status = "FAILED"
           THEN /\ order_history_' = g.history
                /\ proc' = IF g.outcome = "aborted" THEN "aborted" ELSE proc
                /\ call' = [c EXCEPT !.sent = g.sent, !.outcome = g.outcome]
           ELSE IF transport2 = "free_aborts"
           THEN /\ order_history_' = g.history
                /\ proc' = "aborted"
                /\ call' = [c EXCEPT !.sent = g.sent, !.outcome = "aborted"]
           ELSE /\ order_history_' = IF p.cancelled
                                     THEN Put(g.history, order_id, cancelled)
                                     ELSE g.history
                /\ call' = [c EXCEPT !.sent = g.sent \o Perform(req, CurlOk(transport2)),
                                     !.outcome = p.outcome, !.ok = p.ok]
                /\ UNCHANGED proc
    /\ UNCHANGED <<status_, api_key_, api_secret_, risk_params_, next_order_id_>>

\* getBalance, lines 317-329
BalanceAsset(symbol) ==
    CASE symbol \in {SYMBOL_BTC_USDT, SYMBOL_BTC_ETH} -> "BTC"
      [] symbol = SYMBOL_ETH_USDT -> "ETH"
      [] OTHER -> "USDT"

\* getBalance, lines 331-339: the first entry of the asset decides; every
\* exception is caught and gives 0.  Every entry is taken to carry a "free"
\* member, as the exchange's do.
RECURSIVE BalanceScan(_, _)
BalanceScan(items, asset) ==
    IF items = <<>> THEN 0
    ELSE LET b == Head(items)
         IN  IF ~Contains(b.asset) THEN BalanceScan(Tail(items), asset)
             ELSE IF b.asset.t # "str" THEN 0
             ELSE IF b.asset.s # asset THEN BalanceScan(Tail(items), asset)
             ELSE IF b.free.t # "str" \/ StodThrows(b.free.s) THEN 0
             ELSE stod(b.free.s)

\* getBalance, lines 311-351
BalanceParse(j, symbol) ==
    IF j.parse /\ j.balances.t = "arr"
    THEN BalanceScan(j.balances.items, BalanceAsset(symbol))
    ELSE 0

\* getBalance takes no lock.
getBalance(symbol, now, body, transport) ==
    /\ Ready
    /\ LET c == [Call("getBalance") EXCEPT !.symbol = symbol]
           req == Request("GET", "/api/v3/account", "", api_key_, api_secret_, now)
       IN  IF status_ # "CONNECTED"
           THEN /\ call' = c
                /\ UNCHANGED proc
           ELSE IF transport = "free_aborts"
           THEN /\ proc' = "aborted"
                /\ call' = [c EXCEPT !.outcome = "aborted"]
           ELSE /\ call' = [c EXCEPT
                               !.sent = Perform(req, CurlOk(transport)),
                               !.value = BalanceParse(Received(body, CurlOk(transport)),
                                                      symbol)]
                /\ UNCHANGED proc
    /\ UNCHANGED <<status_, api_key_, api_secret_, risk_params_, order_history_,
                   next_order_id_>>

getPosition(symbol) ==
    /\ Ready
    /\ call' = [Call("getPosition") EXCEPT !.symbol = symbol, !.value = 0]
    /\ UNCHANGED <<status_, api_key_, api_secret_, risk_params_, order_history_,
                   next_order_id_, proc>>

Min(a, b) == IF a < b THEN a ELSE b

\* getOrderHistory: the first max_count ids in the map's iteration order,
\* which is unspecified.  A negative max_count reaches reserve() (line 444)
\* as a size beyond max_size(), and std::length_error leaves the operation.
getOrderHistory(max_count) ==
    /\ Ready
    /\ IF max_count < 0
       THEN call' = [Call("getOrderHistory") EXCEPT !.max_count = max_count,
                                                    !.outcome = "threw"]
       ELSE \E ids \in SUBSET DOMAIN order_history_ :
               /\ Cardinality(ids) = Min(max_count, Cardinality(DOMAIN order_history_))
               /\ call' = [Call("getOrderHistory") EXCEPT !.max_count = max_count,
                                                         !.ids = ids]
    /\ UNCHANGED <<status_, api_key_, api_secret_, risk_params_, order_history_,
                   next_order_id_, proc>>

\* ------------------------------------------------------------------ inputs
OrderIds == 1..MaxOrderId
Quantities == 1..MaxQty
Prices == {0, 1}
Sides == {0, 1}
ApiKeys == {"", "KEY"}
ApiSecrets == {"", "SECRET"}
RiskSettings == {DefaultRiskParams, RiskParams(1)}

NoBalances == [t |-> "abs", items |-> <<>>]
Balances(items) == [t |-> "arr", items |-> items]
OrderBody(oid, st, qty, px) == Body(Abs, NoBalances, oid, Abs, Abs, st, qty, px)
ErrorBody(code, msg) == Body(Abs, NoBalances, Abs, code, msg, Abs, Abs, Abs)
AccountBody(acct, bal) == Body(acct, bal, Abs, Abs, Abs, Abs, Abs, Abs)

\* Bodies that are not JSON, carry no known member, or carry an error code
FailureBodies ==
    {BadBody, EmptyObject,
     ErrorBody(Num(-2010), Str("Order rejected")), ErrorBody(Num(-2010), Abs),
     ErrorBody(Str("-2010"), Str("Order rejected")), ErrorBody(Num(-2010), Other)}

OrderStates == {"FILLED", "PARTIALLY_FILLED", "NEW", "CANCELED"}

\* Bodies of the order endpoints about order id: numbers as JSON numbers or,
\* as the exchange sends them, as decimal strings
OrderBodiesFor(id) ==
    FailureBodies
    \cup {OrderBody(Num(id), Str(st), Num(1), Num(1)) : st \in OrderStates}
    \cup {OrderBody(Num(id), Str(st), Str("1.00000000"), Str("1.00000000")) :
              st \in OrderStates}
    \cup {OrderBody(Num(id), Abs, Abs, Abs),
          OrderBody(Str(ToString(id)), Str("NEW"), Num(1), Num(1)),
          OrderBody(Num(id), Other, Num(1), Num(1)),
          OrderBody(Num(id), Str("NEW"), Str("abc"), Str("1.00000000"))}

\* The exchange assigns the id of a new order.
OrderBodies == UNION {OrderBodiesFor(id) : id \in OrderIds}

AccountBodies ==
    FailureBodies
    \cup {AccountBody(Str("SPOT"), Balances(<<[asset |-> Str("ETH"), free |-> Str("0.00000000")],
                                             [asset |-> Str("BTC"), free |-> Str("1.00000000")]>>)),
          AccountBody(Str("SPOT"), NoBalances),
          AccountBody(Abs, Balances(<<[asset |-> Str("BTC"), free |-> Num(1)]>>)),
          AccountBody(Abs, Balances(<<[asset |-> Num(1), free |-> Str("1.00000000")]>>))}

\* One caller drives the gateway; the order endpoint's arguments that only
\* shape the query (symbol, side, clock) are fixed here and range freely in
\* SigningNext.
\* A reply to one send_signed_request: a body read, or no transfer at all
Replies(bodies) ==
    {[transport |-> "ok", body |-> b] : b \in bodies}
    \cup {[transport |-> t, body |-> BadBody] : t \in Transports \ {"ok"}}

\* What cancelOrder's status query reads
CancelStatusBodies(id) ==
    {BadBody, OrderBody(Num(id), Str("NEW"), Num(1), Num(1))}
    \cup {OrderBody(Num(id), Str(st), Str("1.00000000"), Str("1.00000000")) :
              st \in OrderStates}

CancelBodies(id) ==
    {BadBody, ErrorBody(Num(-2011), Str("Unknown order sent.")),
     ErrorBody(Str("-2011"), Str("Unknown order sent.")),
     OrderBody(Num(id), Str("CANCELED"), Str("0.00000000"), Str("1.00000000"))}

\* The caller has its answer and goes on to its next call.
CallerContinues ==
    /\ proc = "running"
    /\ call.op # "idle"
    /\ call' = Call("idle")
    /\ UNCHANGED <<status_, api_key_, api_secret_, risk_params_, order_history_,
                   next_order_id_, proc>>

\* ------------------------------------------------------------- strategies
StrategyKinds == {"MEAN_REVERSION", "MOMENTUM", "RSI"}

\* A double threshold as an exact fraction
Ratio(n, d) == [num |-> n, den |-> d]

\* StrategyParams, the members the three strategies read
StrategyParams(lookback, z, short, long, m, rsi) ==
    [lookback_period |-> lookback, z_score_threshold |-> z,
     short_period |-> short, long_period |-> long, momentum_threshold |-> m,
     rsi_period |-> rsi, rsi_oversold |-> 30, rsi_overbought |-> 70]

DefaultStrategyParams == StrategyParams(20, Ratio(2, 1), 12, 26, Ratio(1, 100), 14)

\* The constructor of each strategy class: STOPPED, three empty histories
NewStrategy ==
    [status_ |-> "STOPPED", params_ |-> DefaultStrategyParams,
     price_history_ |-> [s \in Symbols |-> <<>>]]

HistoryCapacity == 100

\* bids[0].price or asks[0].price: the array entry is read whatever the count
\* says; entries the feed did not fill are zero.
FirstPrice(levels) == IF Len(levels) > 0 THEN levels[1].price ELSE 0

\* (orderbook.bids[0].price + orderbook.asks[0].price) / 2.0; the feed's
\* prices are even multiples of the price unit, so the half is exact.
MidPrice(ob) == (FirstPrice(ob.bids) + FirstPrice(ob.asks)) \div 2

\* history.push_back(mid_price); if (history.size() > 100) erase(begin())
PushPrice(history, mid_price) ==
    LET h == Append(history, mid_price)
    IN  IF Len(h) > HistoryCapacity THEN Tail(h) ELSE h

LastN(h, n) == SubSeq(h, Len(h) - n + 1, Len(h))

\* size < static_cast<size_t>(i): a negative int converts to a value above
\* every size a vector can have.
SizeLess(size, i) == i < 0 \/ size < i

RECURSIVE IsPowerOfTwo(_)
IsPowerOfTwo(n) == n = 1 \/ (n > 1 /\ n % 2 = 0 /\ IsPowerOfTwo(n \div 2))

RECURSIVE SumSeq(_)
SumSeq(q) == IF q = <<>> THEN 0 ELSE q[1] + SumSeq(Tail(q))

Roundings == {-1, 0, 1}

\* MeanReversionStrategy::processMarketData after the push.  With n the
\* lookback, S the sum of the window and c its last sample, n*(c - mean) is
\* a == n*c - S and n*n*sum(diff^2) is q, so z > t exactly when a > 0 and
\* a*a*n > t*t*q.  When every sample of the window equals the mean (q = 0)
\* the doubles decide: sum / lookback_period is the sample itself or, if the
\* sum or the quotient was rounded, a double next to it on side r.  In the
\* first case std_dev is 0 and z_score = 0/0 is NaN, which compares false
\* both times; in the second every diff is the same rounding error, std_dev
\* is its magnitude and z_score is -r.  Nothing is rounded when the samples
\* are 0 or the lookback is a power of two.
MeanReversionSignal(history, params, r) ==
    LET n == params.lookback_period
        t == params.z_score_threshold
        w == LastN(history, n)
        S == SumSeq(w)
        a == n * w[n] - S
        q == SumSeq([i \in 1..n |-> (n * w[i] - S) * (n * w[i] - S)])
        far == a * a * n * t.den * t.den > t.num * t.num * q
        z == IF S = 0 \/ IsPowerOfTwo(n) THEN 0 ELSE -r
    IN  IF SizeLess(Len(history), n) THEN "NONE"
        ELSE IF q = 0
        THEN IF z # 0 /\ z * t.den > t.num THEN "SELL"
             ELSE IF z # 0 /\ z * t.den < -t.num THEN "BUY"
             ELSE "NONE"
        ELSE IF a > 0 /\ far THEN "SELL"
        ELSE IF a < 0 /\ far THEN "BUY"
        ELSE "NONE"

MomentumSignalInverted(history, params) ==
    LET short == SumSeq(LastN(history, params.short_period)) * params.long_period
        long == SumSeq(LastN(history, params.long_period)) * params.short_period
        t == params.momentum_threshold
    IN  IF Len(history) < params.long_period \/ long = 0 THEN "NONE"
        ELSE IF (short - long) * t.den > t.num * long THEN "SELL"
        ELSE IF (short - long) * t.den < -t.num * long THEN "BUY"
        ELSE "NONE"

\* MomentumStrategy::processMarketData after the push.  short_ma/long_ma is
\* short/long with short == short_sum*long_period, long ==
\* long_sum*short_period; prices are not negative, so long_ma = 0 means every
\* sample of the window is 0 and momentum = 0/0 is NaN.  A short_period
\* below 0 leaves short_sum at 0 and makes short_ma -0.0; both products are
\* then taken with the sign turned, so that long stays the positive one.
MomentumSignal(history, params) ==
    LET sign == IF params.short_period < 0 THEN -1 ELSE 1
        short == SumSeq(LastN(history, params.short_period)) * params.long_period * sign
        long == SumSeq(LastN(history, params.long_period)) * params.short_period * sign
        t == params.momentum_threshold
    IN  IF SizeLess(Len(history), params.long_period) \/ long = 0 THEN "NONE"
        ELSE IF (short - long) * t.den > t.num * long THEN "BUY"
        ELSE IF (short - long) * t.den < -t.num * long THEN "SELL"
        ELSE "NONE"

\* Sums of the rises and of the falls over the last period differences
GainSum(prices, period) ==
    SumSeq([k \in 1..period |->
        LET i == Len(prices) - period + k
        IN  IF prices[i] - prices[i - 1] > 0 THEN prices[i] - prices[i - 1] ELSE 0])

LossSum(prices, period) ==
    SumSeq([k \in 1..period |->
        LET i == Len(prices) - period + k
        IN  IF prices[i] - prices[i - 1] > 0 THEN 0 ELSE prices[i - 1] - prices[i]])

calculateRSIUnscaled(prices, period) ==
    IF Len(prices) < period + 1 THEN Ratio(50, 1)
    ELSE IF LossSum(prices, period) = 0 THEN Ratio(100, 1)
    ELSE Ratio(100 * GainSum(prices, period), LossSum(prices, period))

\* RSIStrategy::calculateRSI, as a fraction: with rs = gain/loss,
\* 100 - 100/(1 + rs) is 100*gain/(gain + loss).  A period of 0 makes
\* avg_loss 0.0/0, a NaN that equals nothing and is returned as 0/0; a period
\* of -1 makes it -0.0, which equals 0.0.
calculateRSI(prices, period) ==
    IF SizeLess(Len(prices), period + 1) THEN Ratio(50, 1)
    ELSE IF period = 0 THEN Ratio(0, 0)
    ELSE IF LossSum(prices, period) = 0 THEN Ratio(100, 1)
    ELSE Ratio(100 * GainSum(prices, period),
               GainSum(prices, period) + LossSum(prices, period))

\* RSIStrategy::processMarketData after the push
RSISignal(history, params) ==
    LET rsi == calculateRSI(history, params.rsi_period)
    IN  IF SizeLess(Len(history), params.rsi_period + 1) THEN "NONE"
        ELSE IF rsi.num < params.rsi_oversold * rsi.den THEN "BUY"
        ELSE IF rsi.num > params.rsi_overbought * rsi.den THEN "SELL"
        ELSE "NONE"

\* The positions of the history each class reads in one processMarketData,
\* counted from 0 as the code counts them.  size - 1 - i and size - period
\* are computed in size_t: a result below 0 stands for the value 2^64 higher,
\* far past the last sample.
MomentumReads(size, params) ==
    IF SizeLess(size, params.long_period) THEN {}
    ELSE {size - 1 - i : i \in 0..(params.short_period - 1)}
         \cup {size - 1 - i : i \in 0..(params.long_period - 1)}

MeanReversionReads(size, params) ==
    IF SizeLess(size, params.lookback_period) THEN {}
    ELSE (size - params.lookback_period)..(size - 1)

\* With period -1 the loop starts at size + 1 and does not run.
RSIReads(size, period) ==
    IF SizeLess(size, period + 1) \/ period < 0 THEN {}
    ELSE UNION {{i, i - 1} : i \in (size - period)..(size - 1)}

Reads(kind, size, params) ==
    CASE kind = "MEAN_REVERSION" -> MeanReversionReads(size, params)
      [] kind = "MOMENTUM" -> MomentumReads(size, params)
      [] OTHER -> RSIReads(size, params.rsi_period)

Samples(size) == 0..(size - 1)

Signals == {"NONE", "BUY", "SELL"}

\* The signal of the class kind after the push.  A read outside the vector
\* is undefined: the sum takes whatever the memory holds, and the signal is
\* any of the three (read).
SignalOf(kind, history, params, r, read) ==
    IF ~(Reads(kind, Len(history), params) \subseteq Samples(Len(history))) THEN read
    ELSE CASE kind = "MEAN_REVERSION" -> MeanReversionSignal(history, params, r)
           [] kind = "MOMENTUM" -> MomentumSignal(history, params)
           [] OTHER -> RSISignal(history, params)

\* processMarketData of the class kind on the object s: the object after the
\* call and the signal returned
StrategyProcess(kind, s, ob, r, read) ==
    IF s.status_ # "RUNNING" \/ ob.symbol < 0 \/ ob.symbol >= 3
    THEN [state |-> s, signal |-> "NONE"]
    ELSE LET h == PushPrice(s.price_history_[ob.symbol], MidPrice(ob))
         IN  [state |-> [s EXCEPT !.price_history_[ob.symbol] = h],
              signal |-> SignalOf(kind, h, s.params_, r, read)]

StrategyInitialize(s) == [s EXCEPT !.status_ = "STOPPED"]

StrategyCleanup(s) ==
    [s EXCEPT !.status_ = "STOPPED", !.price_history_ = [k \in Symbols |-> <<>>]]

StrategySetStatus(s, st) == [s EXCEPT !.status_ = st]

StrategyRet(op) ==
    [op |-> op, book |-> ZeroBook, signal |-> [k \in StrategyKinds |-> "NONE"],
     rsi |-> Ratio(50, 1), ran |-> FALSE]

StrategyInit ==
    /\ strategy = [k \in StrategyKinds |-> NewStrategy]
    /\ accepted = [s \in Symbols |-> <<>>]
    /\ stratCall = StrategyRet("idle")

\* One caller drives one object of each class with the same calls.
strategy_initialize ==
    /\ stratCall.op = "idle"
    /\ strategy' = [k \in StrategyKinds |-> StrategyInitialize(strategy[k])]
    /\ stratCall' = StrategyRet("initialize")
    /\ UNCHANGED accepted

strategy_cleanup ==
    /\ stratCall.op = "idle"
    /\ strategy' = [k \in StrategyKinds |-> StrategyCleanup(strategy[k])]
    /\ accepted' = [s \in Symbols |-> <<>>]
    /\ stratCall' = StrategyRet("cleanup")

strategy_setStatus(st) ==
    /\ stratCall.op = "idle"
    /\ strategy' = [k \in StrategyKinds |-> StrategySetStatus(strategy[k], st)]
    /\ stratCall' = StrategyRet("setStatus")
    /\ UNCHANGED accepted

strategy_setParams(params) ==
    /\ stratCall.op = "idle"
    /\ strategy' = [k \in StrategyKinds |-> [strategy[k] EXCEPT !.params_ = params]]
    /\ stratCall' = StrategyRet("setParams")
    /\ UNCHANGED accepted

Held(s) == SumSeq([i \in 1..NumSymbols |-> Len(s.price_history_[i - 1])])

strategy_processMarketData(ob, r, read) ==
    /\ stratCall.op = "idle"
    /\ Held(strategy["RSI"]) < MaxTicks
    /\ LET p == [k \in StrategyKinds |-> StrategyProcess(k, strategy[k], ob, r, read)]
           running == strategy["RSI"].status_ = "RUNNING"
       IN  /\ strategy' = [k \in StrategyKinds |-> p[k].state]
           /\ accepted' = IF running /\ ob.bid_count > 0 /\ ob.ask_count > 0
                          THEN [accepted EXCEPT ![ob.symbol] = Append(@, MidPrice(ob))]
                          ELSE accepted
           /\ stratCall' = [op |-> "processMarketData", book |-> ob,
                            signal |-> [k \in StrategyKinds |-> p[k].signal],
                            rsi |-> calculateRSI(p["RSI"].state.price_history_[ob.symbol],
                                                 strategy["RSI"].params_.rsi_period),
                            ran |-> running]

StrategyCallerContinues ==
    /\ stratCall.op # "idle"
    /\ stratCall' = StrategyRet("idle")
    /\ UNCHANGED <<strategy, accepted>>

\* The snapshots fed to the strategies: prices in units that make every
\* mid-price a whole number
Quote(sym, bid, ask) ==
    orderbook_t(sym, <<price_level_t(bid, 1, 1)>>, <<price_level_t(ask, 1, 1)>>, 1, 1, 1)

StrategyBooks ==
    {Quote(SYMBOL_BTC_USDT, 2, 6), Quote(SYMBOL_BTC_USDT, 6, 10),
     orderbook_t(SYMBOL_BTC_USDT, <<>>, <<price_level_t(6, 1, 1)>>, 0, 1, 1),
     orderbook_t(SYMBOL_BTC_USDT, <<>>, <<>>, 0, 0, 1),
     Quote(SYMBOL_ETH_USDT, 2, 6)}

StrategySettings ==
    {StrategyParams(2, Ratio(2, 1), 1, 2, Ratio(1, 100), 1),
     StrategyParams(3, Ratio(1, 2), 2, 3, Ratio(1, 2), 2)}

StrategyNext ==
    \/ strategy_initialize /\ UNCHANGED outsideStrategy
    \/ strategy_cleanup /\ UNCHANGED outsideStrategy
    \/ \E st \in {"STOPPED", "RUNNING", "PAUSED"} :
          strategy_setStatus(st) /\ UNCHANGED outsideStrategy
    \/ \E params \in StrategySettings :
          strategy_setParams(params) /\ UNCHANGED outsideStrategy
    \/ \E ob \in StrategyBooks, r \in Roundings, read \in Signals :
          strategy_processMarketData(ob, r, read) /\ UNCHANGED outsideStrategy
    \/ StrategyCallerContinues /\ UNCHANGED outsideStrategy

\* Settings of every shape setParams stores: it checks nothing.
AnySettings ==
    StrategySettings \cup
    {StrategyParams(2, Ratio(2, 1), 3, 2, Ratio(1, 100), 1),
     StrategyParams(2, Ratio(2, 1), -1, 2, Ratio(1, 100), 2),
     StrategyParams(0, Ratio(2, 1), 0, 0, Ratio(1, 100), 0),
     StrategyParams(-1, Ratio(2, 1), -1, -1, Ratio(1, 100), -1),
     StrategyParams(HistoryCapacity + 1, Ratio(2, 1), HistoryCapacity + 1,
                    HistoryCapacity + 1, Ratio(1, 100), HistoryCapacity + 1)}

IndexingNext ==
    \/ strategy_initialize /\ UNCHANGED outsideStrategy
    \/ strategy_cleanup /\ UNCHANGED outsideStrategy
    \/ \E st \in {"STOPPED", "RUNNING", "PAUSED"} :
          strategy_setStatus(st) /\ UNCHANGED outsideStrategy
    \/ \E params \in AnySettings :
          strategy_setParams(params) /\ UNCHANGED outsideStrategy
    \/ \E ob \in StrategyBooks, r \in Roundings, read \in Signals :
          strategy_processMarketData(ob, r, read) /\ UNCHANGED outsideStrategy
    \/ StrategyCallerContinues /\ UNCHANGED outsideStrategy

\* ---------------------------------------------------------- strategy engine
\* The caller owns two strategy objects and hands them to the engine; the
\* same calls are made on an engine of each revision, each with its own pair.
StrategyObjects == {"previous", "s"}
StrategyPointers == StrategyObjects \cup {"null"}

EngineRet(op, x, ob, errors) ==
    [op |-> op, strategy |-> x, book |-> ob, error |-> errors]

NoErrors == [rev \in {"engine", "impl"} |-> FALSE]

EngineInit ==
    /\ engine = [strategy_ |-> "null", status_ |-> "STOPPED"]
    /\ engineImpl = [strategy_ |-> "null", initialized_ |-> FALSE,
                     status_ |-> "STOPPED", caller |-> "running"]
    /\ held = [o \in StrategyObjects |-> NewStrategy]
    /\ heldImpl = [o \in StrategyObjects |-> NewStrategy]
    /\ swapped = [rev \in {"engine", "impl"} |-> FALSE]
    /\ engineCall = EngineRet("idle", "null", ZeroBook, NoErrors)

\* if (strategy_) strategy_->f()
OnStrategy(objs, ptr, f(_)) ==
    IF ptr = "null" THEN objs ELSE [objs EXCEPT ![ptr] = f(objs[ptr])]

\* ---- strategy_engine.cpp
Engine_initialize(e) == [e EXCEPT !.status_ = "STOPPED"]

Engine_cleanup(e) == [e EXCEPT !.strategy_ = "null", !.status_ = "STOPPED"]

\* cleanup() of the strategy held, the assignment, initialize() of the new one
Engine_setStrategy(e, objs, x) ==
    [e |-> [e EXCEPT !.strategy_ = x],
     objs |-> OnStrategy(OnStrategy(objs, e.strategy_, StrategyCleanup),
                         x, StrategyInitialize)]

\* start(), stop(), pause(): the status goes to the strategy, if there is
\* one, and to the engine
Engine_setStatus(e, objs, st) ==
    [e |-> [e EXCEPT !.status_ = st],
     objs |-> OnStrategy(objs, e.strategy_, LAMBDA o : StrategySetStatus(o, st))]

Engine_processMarketDataAlways(e, objs, ob) ==
    OnStrategy(objs, e.strategy_,
               LAMBDA o : StrategyProcess("MEAN_REVERSION", o, ob, 0, "NONE").state)

Engine_processMarketData(e, objs, ob) ==
    IF e.strategy_ # "null" /\ e.status_ = "RUNNING"
    THEN OnStrategy(objs, e.strategy_,
                    LAMBDA o : StrategyProcess("MEAN_REVERSION", o, ob, 0, "NONE").state)
    ELSE objs

\* ---- strategy_engine_impl.cpp.  caller is the thread that makes the calls:
\* once it is deadlocked no later call of it happens.
Impl_start(e) ==
    IF ~e.initialized_ \/ e.strategy_ = "null"
    THEN [e |-> e, error |-> TRUE]
    ELSE [e |-> [e EXCEPT !.status_ = "RUNNING"], error |-> FALSE]

\* cleanup() holds mutex_ and calls stop(), which locks mutex_ again
Impl_cleanup(e, relock) ==
    IF e.status_ # "STOPPED" /\ relock = "deadlock"
    THEN [e EXCEPT !.caller = "deadlocked"]
    ELSE [e EXCEPT !.status_ = "STOPPED", !.initialized_ = FALSE]

Impl_processMarketData(e, objs, ob) ==
    IF e.status_ = "RUNNING" /\ e.strategy_ # "null"
    THEN OnStrategy(objs, e.strategy_,
                    LAMBDA o : StrategyProcess("MEAN_REVERSION", o, ob, 0, "NONE").state)
    ELSE objs

\* What a call leaves of engineImpl: nothing changes once the caller hangs
Impl(e) == IF engineImpl.caller = "running" THEN e ELSE engineImpl
ImplObjs(objs) == IF engineImpl.caller = "running" THEN objs ELSE heldImpl

EngineReady == engineCall.op = "idle"

engine_initialize ==
    /\ EngineReady
    /\ engine' = Engine_initialize(engine)
    /\ engineImpl' = Impl([engineImpl EXCEPT !.initialized_ = TRUE])
    /\ swapped' = [swapped EXCEPT !["engine"] = FALSE]
    /\ engineCall' = EngineRet("initialize", "null", ZeroBook, NoErrors)
    /\ UNCHANGED <<held, heldImpl>>

engine_cleanup(relock) ==
    /\ EngineReady
    /\ engine' = Engine_cleanup(engine)
    /\ held' = OnStrategy(held, engine.strategy_, StrategyCleanup)
    /\ engineImpl' = Impl(Impl_cleanup(engineImpl, relock))
    /\ swapped' = [rev \in {"engine", "impl"} |-> FALSE]
    /\ engineCall' = EngineRet("cleanup", "null", ZeroBook, NoErrors)
    /\ UNCHANGED heldImpl

engine_setStrategy(x) ==
    /\ EngineReady
    /\ LET a == Engine_setStrategy(engine, held, x)
       IN  /\ engine' = a.e
           /\ held' = a.objs
    /\ engineImpl' = Impl([engineImpl EXCEPT !.strategy_ = x])
    /\ swapped' = [engine |-> x # "null" /\ engine.status_ = "RUNNING",
                   impl |-> /\ x # "null"
                            /\ engineImpl.status_ = "RUNNING"
                            /\ engineImpl.caller = "running"]
    /\ engineCall' = EngineRet("setStrategy", x, ZeroBook, NoErrors)
    /\ UNCHANGED heldImpl

engine_start ==
    /\ EngineReady
    /\ LET a == Engine_setStatus(engine, held, "RUNNING")
           b == Impl_start(engineImpl)
       IN  /\ engine' = a.e
           /\ held' = a.objs
           /\ engineImpl' = Impl(b.e)
           /\ engineCall' = EngineRet("start", "null", ZeroBook,
                                      [engine |-> FALSE, impl |-> b.error])
    /\ swapped' = [rev \in {"engine", "impl"} |-> FALSE]
    /\ UNCHANGED heldImpl

engine_stop ==
    /\ EngineReady
    /\ LET a == Engine_setStatus(engine, held, "STOPPED")
       IN  /\ engine' = a.e
           /\ held' = a.objs
    /\ engineImpl' = Impl([engineImpl EXCEPT !.status_ = "STOPPED"])
    /\ swapped' = [rev \in {"engine", "impl"} |-> FALSE]
    /\ engineCall' = EngineRet("stop", "null", ZeroBook, NoErrors)
    /\ UNCHANGED heldImpl

engine_pause ==
    /\ EngineReady
    /\ LET a == Engine_setStatus(engine, held, "PAUSED")
       IN  /\ engine' = a.e
           /\ held' = a.objs
    /\ engineImpl' = Impl([engineImpl EXCEPT !.status_ = "PAUSED"])
    /\ swapped' = [rev \in {"engine", "impl"} |-> FALSE]
    /\ engineCall' = EngineRet("pause", "null", ZeroBook, NoErrors)
    /\ UNCHANGED heldImpl

engine_processMarketData(ob) ==
    /\ EngineReady
    /\ \A o \in StrategyObjects :
          Held(held[o]) < MaxEngineTicks /\ Held(heldImpl[o]) < MaxEngineTicks
    /\ held' = Engine_processMarketData(engine, held, ob)
    /\ heldImpl' = ImplObjs(Impl_processMarketData(engineImpl, heldImpl, ob))
    /\ engineCall' = EngineRet("processMarketData", "null", ob, NoErrors)
    /\ UNCHANGED <<engine, engineImpl, swapped>>

\* The caller starts a strategy object itself: IStrategy::setStatus
caller_setStatus(o) ==
    /\ EngineReady
    /\ held' = [held EXCEPT ![o] = StrategySetStatus(@, "RUNNING")]
    /\ heldImpl' = ImplObjs([heldImpl EXCEPT ![o] = StrategySetStatus(@, "RUNNING")])
    /\ engineCall' = EngineRet("setStatus", o, ZeroBook, NoErrors)
    /\ UNCHANGED <<engine, engineImpl, swapped>>

EngineCallerContinues ==
    /\ engineCall.op # "idle"
    /\ engineCall' = EngineRet("idle", "null", ZeroBook, NoErrors)
    /\ UNCHANGED <<engine, engineImpl, held, heldImpl, swapped>>

EngineBooks == {Quote(SYMBOL_BTC_USDT, 2, 6)}

EngineNext ==
    \/ engine_initialize /\ UNCHANGED outsideEngine
    \/ \E relock \in Relocks :
          engine_cleanup(relock) /\ UNCHANGED outsideEngine
    \/ \E x \in StrategyPointers :
          engine_setStrategy(x) /\ UNCHANGED outsideEngine
    \/ engine_start /\ UNCHANGED outsideEngine
    \/ engine_stop /\ UNCHANGED outsideEngine
    \/ engine_pause /\ UNCHANGED outsideEngine
    \/ \E ob \in EngineBooks :
          engine_processMarketData(ob) /\ UNCHANGED outsideEngine
    \/ \E o \in StrategyObjects :
          caller_setStatus(o) /\ UNCHANGED outsideEngine
    \/ EngineCallerContinues /\ UNCHANGED outsideEngine


\* ---- strategy_engine_impl.cpp, class OrderExecutor
ExecutorInit ==
    executorImpl = [initialized_ |-> FALSE, status_ |-> "IDLE", caller |-> "running"]

ExecutorRuns == executorImpl.caller = "running" /\ EngineReady

executor_initialize ==
    /\ ExecutorRuns
    /\ executorImpl' = [executorImpl EXCEPT !.initialized_ = TRUE]

executor_connect ==
    /\ ExecutorRuns
    /\ executorImpl' = [executorImpl EXCEPT !.status_ = "CONNECTED"]

executor_disconnect ==
    /\ ExecutorRuns
    /\ executorImpl' = [executorImpl EXCEPT !.status_ = "DISCONNECTED"]

\* cleanup holds mutex_ (line 111) when it calls disconnect() (line 113),
\* whose lock_guard locks the same mutex again (line 138): undefined, as in
\* StrategyEngine::cleanup
executor_cleanup(relock) ==
    /\ ExecutorRuns
    /\ executorImpl' =
          IF executorImpl.status_ = "CONNECTED" /\ relock = "deadlock"
          THEN [executorImpl EXCEPT !.caller = "deadlocked"]
          ELSE [executorImpl EXCEPT
                   !.status_ = IF @ = "CONNECTED" THEN "DISCONNECTED" ELSE @,
                   !.initialized_ = FALSE]

\* The lifecycle calls of both components of strategy_engine_impl.cpp
CleanupNext ==
    \/ engine_initialize /\ UNCHANGED outsideEngine
    \/ \E relock \in Relocks : engine_cleanup(relock) /\ UNCHANGED outsideEngine
    \/ \E x \in StrategyPointers : engine_setStrategy(x) /\ UNCHANGED outsideEngine
    \/ engine_start /\ UNCHANGED outsideEngine
    \/ engine_stop /\ UNCHANGED outsideEngine
    \/ engine_pause /\ UNCHANGED outsideEngine
    \/ EngineCallerContinues /\ UNCHANGED outsideEngine
    \/ executor_initialize /\ UNCHANGED <<engineVars, outsideExecutor>>
    \/ executor_connect /\ UNCHANGED <<engineVars, outsideExecutor>>
    \/ executor_disconnect /\ UNCHANGED <<engineVars, outsideExecutor>>
    \/ \E relock \in Relocks :
          executor_cleanup(relock) /\ UNCHANGED <<engineVars, outsideExecutor>>


\* ------------------------------------------------- derived store queries
\* The answers are <<vector revision, map revision>>; a double that may be a
\* half is an exact fraction.
DepthCapacity == 20

Zero == Ratio(0, 1)

VecMidPrice(books, sym) ==
    LET ob == VecGet(books, sym)
    IN  IF VecInRange(books, sym) /\ ob.bid_count > 0 /\ ob.ask_count > 0
        THEN Ratio(FirstPrice(ob.bids) + FirstPrice(ob.asks), 2) ELSE Zero

VecSpread(books, sym) ==
    LET ob == VecGet(books, sym)
    IN  IF VecInRange(books, sym) /\ ob.bid_count > 0 /\ ob.ask_count > 0
        THEN Ratio(FirstPrice(ob.asks) - FirstPrice(ob.bids), 1) ELSE Zero

\* The map revision goes through getBestBid and getBestAsk
MapMidPrice(m, sym) ==
    IF MapBestBid(m, sym) > 0 /\ MapBestAsk(m, sym) > 0
    THEN Ratio(MapBestBid(m, sym) + MapBestAsk(m, sym), 2) ELSE Zero

MapSpread(m, sym) ==
    IF MapBestBid(m, sym) > 0 /\ MapBestAsk(m, sym) > 0
    THEN Ratio(MapBestAsk(m, sym) - MapBestBid(m, sym), 1) ELSE Zero

VecIsValid(books, sym) ==
    LET ob == VecGet(books, sym)
    IN  /\ VecInRange(books, sym)
        /\ ob.bid_count > 0 /\ ob.ask_count > 0
        /\ FirstPrice(ob.bids) > 0 /\ FirstPrice(ob.asks) > 0

MapIsValid(m, sym) == MapGet(m, sym).bid_count > 0 /\ MapGet(m, sym).ask_count > 0

\* for (i = 0; i < count; ++i) depth += side[i].quantity, with count ==
\* min(levels, side_count).  The array has DepthCapacity entries, zero after
\* the levels listed; what lies behind the array is past, whatever it is.
DepthSum(side, count, past) ==
    SumSeq([k \in 1..count |->
        IF k <= Len(side) THEN side[k].quantity
        ELSE IF k <= DepthCapacity THEN 0 ELSE past])

VecDepth(books, sym, bidSide, levels, past) ==
    LET ob == VecGet(books, sym)
    IN  IF ~VecInRange(books, sym) THEN 0
        ELSE IF bidSide THEN DepthSum(ob.bids, Min(levels, ob.bid_count), past)
        ELSE DepthSum(ob.asks, Min(levels, ob.ask_count), past)

MapDepth(m, sym, bidSide, levels, past) ==
    LET ob == MapGet(m, sym)
    IN  IF bidSide THEN DepthSum(ob.bids, Min(levels, ob.bid_count), past)
        ELSE DepthSum(ob.asks, Min(levels, ob.ask_count), past)

StoreUnchanged == UNCHANGED <<orderbooks_, orderbooks_map, initialized_, lastUpdate>>

getMidPrice(sym) ==
    /\ storeCall.op = "idle"
    /\ storeCall' = [StoreRet("getMidPrice", sym) EXCEPT
                        !.value = <<VecMidPrice(orderbooks_, sym),
                                    MapMidPrice(orderbooks_map, sym)>>]
    /\ StoreUnchanged

getSpread(sym) ==
    /\ storeCall.op = "idle"
    /\ storeCall' = [StoreRet("getSpread", sym) EXCEPT
                        !.value = <<VecSpread(orderbooks_, sym),
                                    MapSpread(orderbooks_map, sym)>>]
    /\ StoreUnchanged

isValid(sym) ==
    /\ storeCall.op = "idle"
    /\ storeCall' = [StoreRet("isValid", sym) EXCEPT
                        !.value = <<VecIsValid(orderbooks_, sym),
                                    MapIsValid(orderbooks_map, sym)>>]
    /\ StoreUnchanged

\* getBidDepth and getAskDepth; beyond: the loop of either revision read an
\* index outside the array
getDepth(op, sym, levels, past) ==
    /\ storeCall.op = "idle"
    /\ LET bidSide == op = "getBidDepth"
           vec == VecGet(orderbooks_, sym)
           map == MapGet(orderbooks_map, sym)
           reads == {Min(levels, IF bidSide THEN vec.bid_count ELSE vec.ask_count),
                     Min(levels, IF bidSide THEN map.bid_count ELSE map.ask_count)}
       IN  storeCall' = [StoreRet(op, sym) EXCEPT
                            !.levels = levels,
                            !.value = <<VecDepth(orderbooks_, sym, bidSide, levels, past),
                                        MapDepth(orderbooks_map, sym, bidSide, levels, past)>>,
                            !.beyond = \E n \in reads : n > DepthCapacity]
    /\ StoreUnchanged

\* ------------------------------------------------------------ feed parsers
\* A depth document: parse says whether the text is JSON; bids and asks are
\* absent ("abs"), present but no array ("other"), or an array ("arr") of
\* entries.  An entry is a [price, quantity] pair of strings ("pair"), or
\* something that is_array() && size() >= 2 rejects ("short"), or a pair
\* whose members are not strings ("nonstring").
Entry(price, quantity) == [t |-> "pair", price |-> price, quantity |-> quantity]
ShortEntry == [t |-> "short", price |-> "", quantity |-> ""]
NonStringEntry == [t |-> "nonstring", price |-> "", quantity |-> ""]

NoSide == [t |-> "abs", items |-> <<>>]
NotArraySide == [t |-> "other", items |-> <<>>]
SideArray(items) == [t |-> "arr", items |-> items]

Depth(bids, asks) == [parse |-> TRUE, bids |-> bids, asks |-> asks]
BadDepth == [parse |-> FALSE, bids |-> NoSide, asks |-> NoSide]

\* get<std::string>() throws on a non-string, std::stod on a text that is no
\* number
EntryThrows(e) ==
    \/ e.t = "nonstring"
    \/ e.t = "pair" /\ (StodThrows(e.price) \/ StodThrows(e.quantity))

SideThrows(side, count) ==
    side.t = "arr" /\ \E i \in 1..count : EntryThrows(side.items[i])

\* What is in the slot i of an array whose first entries are listed in levels
SlotOf(levels, i) == IF i <= Len(levels) THEN levels[i] ELSE price_level_t(0, 0, 0)

\* bid_count/ask_count after the parse: the array size, at most 20; before,
\* what the struct held, when the field is absent or no array
ParsedCount(side, before) ==
    IF side.t = "arr" THEN Min(Len(side.items), DepthCapacity) ELSE before

\* The levels after the parse: price and quantity of the well-formed entries
\* are stored, the other slots and every level's timestamp keep what the
\* struct held
ParsedLevels(side, before) ==
    IF side.t = "arr"
    THEN [i \in 1..Min(Len(side.items), DepthCapacity) |->
            IF side.items[i].t = "pair"
            THEN price_level_t(stod(side.items[i].price), stod(side.items[i].quantity),
                               SlotOf(before, i).timestamp)
            ELSE SlotOf(before, i)]
    ELSE before

\* rest_client_get_orderbook(client, symbol, &orderbook) on the struct the
\* caller passes (into), the request having succeeded or not (fetched)
rest_client_get_orderbook(symbol, into, fetched, doc, now) ==
    LET nb == ParsedCount(doc.bids, into.bid_count)
        na == ParsedCount(doc.asks, into.ask_count)
    IN  IF ~fetched \/ ~doc.parse
           \/ SideThrows(doc.bids, Min(Len(doc.bids.items), DepthCapacity))
           \/ SideThrows(doc.asks, Min(Len(doc.asks.items), DepthCapacity))
        THEN [result |-> -1, orderbook |-> into]
        ELSE [result |-> 0,
              orderbook |-> orderbook_t(symbol, ParsedLevels(doc.bids, into.bids),
                                        ParsedLevels(doc.asks, into.asks), nb, na, now)]

\* A stream name is the sequence of its parts, e.g. <<"btcusdt", "@depth">>;
\* stream_name.find(part) != npos
Occurs(part, stream_name) == \E i \in 1..Len(stream_name) : stream_name[i] = part

\* The pair name initializeWebSocketClient subscribes with
PairName(symbol) ==
    CASE symbol = SYMBOL_BTC_USDT -> "btcusdt"
      [] symbol = SYMBOL_ETH_USDT -> "ethusdt"
      [] OTHER -> "btceth"

StreamOf(symbol) == <<PairName(symbol), "@depth">>

\* The if / else if chain of lines 55-61 on the zeroed struct: when no
\* branch is taken symbol keeps the 0 memset wrote, which is SYMBOL_BTC_USDT.
StreamSymbol(stream_name) ==
    IF Occurs("btcusdt", stream_name) THEN SYMBOL_BTC_USDT
    ELSE IF Occurs("ethusdt", stream_name) THEN SYMBOL_ETH_USDT
    ELSE IF Occurs("btceth", stream_name) THEN SYMBOL_BTC_ETH
    ELSE 0

\* websocket_write_callback on a message with the stream name and the data
\* doc: the struct is zeroed first; delivered says whether the callback is
\* reached
websocket_write_callback(stream_name, doc, now) ==
    LET nb == ParsedCount(doc.bids, 0)
        na == ParsedCount(doc.asks, 0)
    IN  IF ~doc.parse \/ ~Occurs("@depth", stream_name)
           \/ SideThrows(doc.bids, nb) \/ SideThrows(doc.asks, na)
        THEN [delivered |-> FALSE, orderbook |-> ZeroBook]
        ELSE [delivered |-> TRUE,
              orderbook |-> orderbook_t(StreamSymbol(stream_name),
                                        ParsedLevels(doc.bids, <<>>),
                                        ParsedLevels(doc.asks, <<>>), nb, na, now)]

\* MarketDataFetcher::generateOrderbook
generateOrderbook(symbol, now) ==
    LET base_price == 50000 + symbol * 1000
    IN  orderbook_t(symbol, <<price_level_t(base_price - 5, 1, 0)>>,
                    <<price_level_t(base_price + 5, 1, 0)>>, 1, 1, now)

GoodEntry == Entry("1.00000000", "1.00000000")
OneLevel == SideArray(<<GoodEntry>>)
LongSide == SideArray([i \in 1..(DepthCapacity + 1) |-> GoodEntry])


\* What an orderbook_t declared without an initializer may hold: zeros, or
\* whatever the stack held before
UninitializedBooks ==
    {ZeroBook,
     orderbook_t(SYMBOL_BTC_ETH, <<price_level_t(9, 9, 9)>>, <<price_level_t(9, 9, 9)>>,
                 DepthCapacity + 1, DepthCapacity + 1, 9)}

\* ------------------------------------------------------ MarketDataFetcher
\* Threads: the controllers call start(), stop(), initialize() and
\* setOrderbookCallback(); each start() that gets that far creates an
\* ingestion thread (the lambda of lines 69-122); the websocket client has one
\* worker.  A step is what a thread does between two points at which another
\* thread can see or change what it works on: the atomics is_running, the
\* mutex, the thread objects.
Controllers == {"c1", "c2"}
PollerIds == 1..MaxSpawns
NoThread == 0  \* data_thread holds no thread: joinable() is false

Parked == [pc |-> "idle", symbol |-> SYMBOL_BTC_USDT, target |-> NoThread]
Unborn == [pc |-> "unborn", orderbook |-> ZeroBook, data_fetched |-> FALSE,
           callback |-> "null", response |-> "none"]

FetcherInit ==
    /\ fetcher = [is_running |-> FALSE, current_symbol |-> SYMBOL_BTC_USDT,
                  data_thread |-> NoThread, rest_client_ptr |-> "null",
                  websocket_client_ptr |-> "null", orderbook_callback |-> "null",
                  mutex |-> "free"]
    /\ wsClient = [is_running |-> FALSE, worker |-> "none", mutex |-> "free",
                   symbol |-> SYMBOL_BTC_USDT, pc |-> "perform", callback |-> "null"]
    /\ controller = [c \in Controllers |-> Parked]
    /\ poller = [id \in PollerIds |-> Unborn]
    /\ delivery = [by |-> "none", to |-> "null", seq |-> 0]
    /\ fetcherProc = "running"
    /\ joins = [id \in PollerIds |-> 0]
    /\ quiet = FALSE
    /\ stopCompleted = FALSE

Alive == fetcherProc = "running"
At(c, pc) == Alive /\ controller[c].pc = pc
Born == {id \in PollerIds : poller[id].pc # "unborn"}
Starting == {c \in Controllers : controller[c].pc \in {"start_lock", "start_spawn"}}
Invoked(by, callback) == [by |-> by, to |-> callback, seq |-> 1 - delivery.seq]

\* initialize(): the REST client is created under the mutex
fetcher_initialize(c) ==
    /\ At(c, "idle")
    /\ fetcher.mutex = "free"
    /\ fetcher' = [fetcher EXCEPT !.rest_client_ptr = "client"]
    /\ UNCHANGED <<wsClient, controller, poller, delivery, fetcherProc, joins, quiet,
                   stopCompleted>>

setOrderbookCallback(c, callback) ==
    /\ At(c, "idle")
    /\ fetcher.mutex = "free"
    /\ fetcher' = [fetcher EXCEPT !.orderbook_callback = callback]
    /\ UNCHANGED <<wsClient, controller, poller, delivery, fetcherProc, joins, quiet,
                   stopCompleted>>

\* start(symbol), lines 53-57: the test of is_running, before the mutex
start_call(c, symbol) ==
    /\ At(c, "idle")
    /\ Cardinality(Born) + Cardinality(Starting) < MaxSpawns
    /\ controller' = IF fetcher.is_running THEN controller
                     ELSE [controller EXCEPT ![c] = [Parked EXCEPT !.pc = "start_lock",
                                                                   !.symbol = symbol]]
    /\ quiet' = FALSE
    /\ UNCHANGED <<fetcher, wsClient, poller, delivery, fetcherProc, joins, stopCompleted>>

\* lines 59-61
start_enter(c) ==
    /\ At(c, "start_lock")
    /\ fetcher.mutex = "free"
    /\ fetcher' = [fetcher EXCEPT !.mutex = c, !.is_running = TRUE,
                                  !.current_symbol = controller[c].symbol]
    /\ controller' = [controller EXCEPT ![c].pc = "start_spawn"]
    /\ UNCHANGED <<wsClient, poller, delivery, fetcherProc, joins, quiet, stopCompleted>>

\* lines 64-126: the websocket client is created and started if there is
\* none (created says whether that works), then data_thread is assigned the
\* new thread; assigning to a joinable std::thread calls std::terminate
start_spawn(c, created) ==
    /\ At(c, "start_spawn")
    /\ LET opens == fetcher.websocket_client_ptr = "null" /\ created
           id == Cardinality(Born) + 1
       IN  /\ wsClient' = IF opens
                          THEN [is_running |-> TRUE, worker |-> "running", mutex |-> "free",
                                symbol |-> controller[c].symbol, pc |-> "perform",
                                callback |-> "null"]
                          ELSE wsClient
           /\ IF fetcher.data_thread # NoThread
              THEN /\ fetcherProc' = "terminated"
                   /\ fetcher' = [fetcher EXCEPT
                                    !.websocket_client_ptr = IF opens THEN "client" ELSE @]
                   /\ UNCHANGED <<controller, poller>>
              ELSE /\ fetcher' = [fetcher EXCEPT
                                    !.websocket_client_ptr = IF opens THEN "client" ELSE @,
                                    !.data_thread = id, !.mutex = "free"]
                   /\ poller' = [poller EXCEPT ![id].pc = "check"]
                   /\ controller' = [controller EXCEPT ![c] = Parked]
                   /\ UNCHANGED fetcherProc
    /\ UNCHANGED <<delivery, joins, quiet, stopCompleted>>

\* stop() has returned to its caller; a start() that another thread is in
\* the middle of counts as called after it
StopReturns == quiet' = (Starting = {}) /\ stopCompleted' = TRUE

\* stop(), lines 130-134
stop_call(c) ==
    /\ At(c, "idle")
    /\ IF fetcher.is_running
       THEN /\ controller' = [controller EXCEPT ![c].pc = "stop_flag"]
            /\ UNCHANGED <<quiet, stopCompleted>>
       ELSE /\ StopReturns
            /\ UNCHANGED controller
    /\ UNCHANGED <<fetcher, wsClient, poller, delivery, fetcherProc, joins>>

\* line 136
stop_flag(c) ==
    /\ At(c, "stop_flag")
    /\ fetcher' = [fetcher EXCEPT !.is_running = FALSE]
    /\ controller' = [controller EXCEPT ![c].pc = "stop_ws"]
    /\ UNCHANGED <<wsClient, poller, delivery, fetcherProc, joins, quiet, stopCompleted>>

\* lines 139-141 and websocket_client_stop up to its join
stop_ws(c) ==
    /\ At(c, "stop_ws")
    /\ IF fetcher.websocket_client_ptr = "null"
       THEN /\ controller' = [controller EXCEPT ![c].pc = "stop_thread"]
            /\ UNCHANGED wsClient
       ELSE /\ wsClient.mutex = "free"
            /\ IF wsClient.is_running
               THEN /\ wsClient' = [wsClient EXCEPT !.is_running = FALSE, !.mutex = c]
                    /\ controller' = [controller EXCEPT ![c].pc = "stop_ws_join"]
               ELSE /\ controller' = [controller EXCEPT ![c].pc = "stop_thread"]
                    /\ UNCHANGED wsClient
    /\ UNCHANGED <<fetcher, poller, delivery, fetcherProc, joins, quiet, stopCompleted>>

\* worker_thread.join() returns once the worker has left its loop
stop_ws_join(c) ==
    /\ At(c, "stop_ws_join")
    /\ wsClient.worker = "exited"
    /\ wsClient' = [wsClient EXCEPT !.worker = "joined", !.mutex = "free"]
    /\ controller' = [controller EXCEPT ![c].pc = "stop_thread"]
    /\ UNCHANGED <<fetcher, poller, delivery, fetcherProc, joins, quiet, stopCompleted>>

\* Two join() calls on one std::thread at once are undefined: the second
\* waits as the first does, or fails with an exception that leaves stop()
JoinRaces == {"waits", "throws"}

\* lines 144-146: joinable() and the call of join()
stop_thread(c, race) ==
    /\ At(c, "stop_thread")
    /\ LET t == fetcher.data_thread
       IN  IF t = NoThread
           THEN /\ controller' = [controller EXCEPT ![c] = Parked]
                /\ StopReturns
                /\ UNCHANGED joins
           ELSE /\ joins' = [joins EXCEPT ![t] = @ + 1]
                /\ controller' = IF joins[t] > 0 /\ race = "throws"
                                 THEN [controller EXCEPT ![c] = Parked]
                                 ELSE [controller EXCEPT ![c].pc = "stop_join",
                                                         ![c].target = t]
                /\ UNCHANGED <<quiet, stopCompleted>>
    /\ UNCHANGED <<fetcher, wsClient, poller, delivery, fetcherProc>>

\* join() returns once the ingestion thread has ended; stop() returns
stop_join(c) ==
    /\ At(c, "stop_join")
    /\ poller[controller[c].target].pc = "exited"
    /\ fetcher' = [fetcher EXCEPT
                      !.data_thread = IF @ = controller[c].target THEN NoThread ELSE @]
    /\ joins' = [joins EXCEPT ![controller[c].target] = @ - 1]
    /\ controller' = [controller EXCEPT ![c] = Parked]
    /\ StopReturns
    /\ UNCHANGED <<wsClient, poller, delivery, fetcherProc>>

\* The ingestion thread, line 74: while (is_running.load())
poll_check(id) ==
    /\ Alive
    /\ poller[id].pc = "check"
    /\ poller' = [poller EXCEPT ![id].pc = IF fetcher.is_running THEN "fetch" ELSE "exited"]
    /\ UNCHANGED <<fetcher, wsClient, controller, delivery, fetcherProc, joins, quiet,
                   stopCompleted>>

IterationSnapshotWhenFetched(rest, symbol, now) ==
    [orderbook |-> rest.orderbook, data_fetched |-> rest.result = 0,
     callback |-> IF rest.result = 0 THEN fetcher.orderbook_callback ELSE "null"]

\* lines 76-110: the REST snapshot, or the generated one when there is no
\* REST client or the fetch failed, and the callback to hand it to
IterationSnapshot(rest, symbol, now) ==
    [orderbook |-> IF rest.result = 0 THEN rest.orderbook
                   ELSE generateOrderbook(symbol, now),
     data_fetched |-> rest.result = 0,
     callback |-> fetcher.orderbook_callback]

\* What became of the REST request of an iteration: no reply (no client, or
\* the transfer failed), a reply the parser gave up on, or a parsed reply
ResponseOf(client, fetched, rest) ==
    IF client = "null" \/ ~fetched THEN "none"
    ELSE IF rest.result = 0 THEN "parsed" ELSE "unparsed"

poll_fetch(id, fetched, doc, into) ==
    /\ Alive
    /\ poller[id].pc = "fetch"
    /\ fetcher.mutex = "free"
    /\ LET symbol == fetcher.current_symbol
           rest == IF fetcher.rest_client_ptr = "null"
                   THEN [result |-> -1, orderbook |-> into]
                   ELSE rest_client_get_orderbook(symbol, into, fetched, doc, 1)
       IN  poller' = [poller EXCEPT
                         ![id] = [pc |-> "deliver",
                                  response |-> ResponseOf(fetcher.rest_client_ptr,
                                                          fetched, rest)]
                                 @@ IterationSnapshot(rest, symbol, 1)]
    /\ UNCHANGED <<fetcher, wsClient, controller, delivery, fetcherProc, joins, quiet,
                   stopCompleted>>

\* lines 112-114: the copy of the callback is invoked, if there is one
poll_deliver(id) ==
    /\ Alive
    /\ poller[id].pc = "deliver"
    /\ IF poller[id].callback # "null"
       THEN /\ delivery' = Invoked("poll", poller[id].callback)
            /\ poller' = [poller EXCEPT ![id].pc = "callback"]
       ELSE /\ poller' = [poller EXCEPT ![id] = [Unborn EXCEPT !.pc = "check"]]
            /\ UNCHANGED delivery
    /\ UNCHANGED <<fetcher, wsClient, controller, fetcherProc, joins, quiet, stopCompleted>>

\* lines 115-121: the callback has returned, the thread sleeps
poll_return(id) ==
    /\ Alive
    /\ poller[id].pc = "callback"
    /\ poller' = [poller EXCEPT ![id] = [Unborn EXCEPT !.pc = "check"]]
    /\ UNCHANGED <<fetcher, wsClient, controller, delivery, fetcherProc, joins, quiet,
                   stopCompleted>>

\* The worker inside curl_easy_perform receives a message: the parser runs
\* and websocketCallbackWrapper copies the callback under the fetcher's mutex
ws_message(doc) ==
    /\ Alive
    /\ wsClient.worker = "running"
    /\ wsClient.pc = "perform"
    /\ fetcher.mutex = "free"
    /\ websocket_write_callback(StreamOf(wsClient.symbol), doc, 1).delivered
    /\ fetcher.orderbook_callback # "null"
    /\ wsClient' = [wsClient EXCEPT !.pc = "deliver",
                                    !.callback = fetcher.orderbook_callback]
    /\ UNCHANGED <<fetcher, controller, poller, delivery, fetcherProc, joins, quiet,
                   stopCompleted>>

\* websocketCallbackWrapper, lines 324-326: the copy is invoked
ws_deliver ==
    /\ Alive
    /\ wsClient.pc = "deliver"
    /\ delivery' = Invoked("stream", wsClient.callback)
    /\ wsClient' = [wsClient EXCEPT !.pc = "callback"]
    /\ UNCHANGED <<fetcher, controller, poller, fetcherProc, joins, quiet, stopCompleted>>

\* the callback has returned and the worker is back in curl_easy_perform
ws_return ==
    /\ Alive
    /\ wsClient.pc = "callback"
    /\ wsClient' = [wsClient EXCEPT !.pc = "perform", !.callback = "null"]
    /\ UNCHANGED <<fetcher, controller, poller, delivery, fetcherProc, joins, quiet,
                   stopCompleted>>

\* websocket_thread_func, line 137: the worker leaves its loop
ws_exit ==
    /\ Alive
    /\ wsClient.worker = "running"
    /\ wsClient.pc = "perform"
    /\ ~wsClient.is_running
    /\ wsClient' = [wsClient EXCEPT !.worker = "exited"]
    /\ UNCHANGED <<fetcher, controller, poller, delivery, fetcherProc, joins, quiet,
                   stopCompleted>>

Callbacks == {"cb", "fn"}
FetcherDocs == {Depth(OneLevel, OneLevel), BadDepth}
StartSymbols == {SYMBOL_BTC_USDT, SYMBOL_ETH_USDT}

FetcherNext ==
    \/ \E c \in Controllers : fetcher_initialize(c) /\ UNCHANGED outsideFetcher
    \/ \E c \in Controllers : setOrderbookCallback(c, "cb") /\ UNCHANGED outsideFetcher
    \/ \E c \in Controllers, symbol \in StartSymbols :
          start_call(c, symbol) /\ UNCHANGED outsideFetcher
    \/ \E c \in Controllers : start_enter(c) /\ UNCHANGED outsideFetcher
    \/ \E c \in Controllers, created \in BOOLEAN :
          start_spawn(c, created) /\ UNCHANGED outsideFetcher
    \/ \E c \in Controllers : stop_call(c) /\ UNCHANGED outsideFetcher
    \/ \E c \in Controllers : stop_flag(c) /\ UNCHANGED outsideFetcher
    \/ \E c \in Controllers : stop_ws(c) /\ UNCHANGED outsideFetcher
    \/ \E c \in Controllers : stop_ws_join(c) /\ UNCHANGED outsideFetcher
    \/ \E c \in Controllers, race \in JoinRaces :
          stop_thread(c, race) /\ UNCHANGED outsideFetcher
    \/ \E c \in Controllers : stop_join(c) /\ UNCHANGED outsideFetcher
    \/ \E id \in PollerIds : poll_check(id) /\ UNCHANGED outsideFetcher
    \/ \E id \in PollerIds, fetched \in BOOLEAN, doc \in FetcherDocs,
          into \in UninitializedBooks :
          poll_fetch(id, fetched, doc, into) /\ UNCHANGED outsideFetcher
    \/ \E id \in PollerIds : poll_deliver(id) /\ UNCHANGED outsideFetcher
    \/ \E id \in PollerIds : poll_return(id) /\ UNCHANGED outsideFetcher
    \/ \E doc \in FetcherDocs : ws_message(doc) /\ UNCHANGED outsideFetcher
    \/ ws_deliver /\ UNCHANGED outsideFetcher
    \/ ws_return /\ UNCHANGED outsideFetcher
    \/ ws_exit /\ UNCHANGED outsideFetcher

\* ------------------------------------------- OrderExecutor, several threads
\* The operations of order_executor.cpp as the threads of GwThreads run them
\* against one another.  A step ends where another thread can see or change
\* what the operation works on: status_ is atomic and is read outside the
\* mutex, everything else is meant to be read and written under mutex_.
GwThreads == {"t1", "t2"}
Resting == [pc |-> "idle", key |-> "", secret |-> "", signed |-> <<"", "">>]

RaceInit ==
    /\ gwThread = [t \in GwThreads |-> Resting]
    /\ gwMutex = "free"
    /\ sentIn = "none"

Runs(t, pc) == proc = "running" /\ call.op = "idle" /\ gwThread[t].pc = pc
Goes(t, pc) == gwThread' = [gwThread EXCEPT ![t].pc = pc]

\* setApiCredentials, lines 71-72
race_setApiCredentials(t, key, secret) ==
    /\ Runs(t, "idle")
    /\ gwMutex = "free"
    /\ gwMutex' = t
    /\ api_key_' = key
    /\ gwThread' = [gwThread EXCEPT ![t].pc = "credentials", ![t].key = key,
                                    ![t].secret = secret]
    /\ UNCHANGED <<status_, api_secret_, order_history_, sentIn>>

\* setApiCredentials, lines 73-75
race_setApiCredentials_end(t) ==
    /\ Runs(t, "credentials")
    /\ api_secret_' = gwThread[t].secret
    /\ gwMutex' = "free"
    /\ Goes(t, "idle")
    /\ UNCHANGED <<status_, api_key_, order_history_, sentIn>>

\* connect, lines 79-88
race_connect(t) ==
    /\ Runs(t, "idle")
    /\ gwMutex = "free"
    /\ IF CredentialsMissing(api_key_, api_secret_)
       THEN /\ status_' = "ERROR"
            /\ UNCHANGED <<gwThread, gwMutex>>
       ELSE /\ status_' = "CONNECTING"
            /\ gwMutex' = t
            /\ Goes(t, "connecting")
    /\ UNCHANGED <<api_key_, api_secret_, order_history_, sentIn>>

\* connect, lines 91-118: the reply decides the status
race_connect_end(t, body) ==
    /\ Runs(t, "connecting")
    /\ status_' = ConnectParse(body).status
    /\ gwMutex' = "free"
    /\ Goes(t, "idle")
    /\ UNCHANGED <<api_key_, api_secret_, order_history_, sentIn>>

race_disconnect(t) ==
    /\ Runs(t, "idle")
    /\ gwMutex = "free"
    /\ status_' = "DISCONNECTED"
    /\ UNCHANGED <<api_key_, api_secret_, order_history_, raceVars>>

race_cleanup(t) ==
    /\ Runs(t, "idle")
    /\ gwMutex = "free"
    /\ order_history_' = <<>>
    /\ status_' = "IDLE"
    /\ UNCHANGED <<api_key_, api_secret_, raceVars>>

\* submitOrder, lines 134-143: the status test, before the mutex
race_submitOrder(t) ==
    /\ Runs(t, "idle")
    /\ IF status_ = "CONNECTED" THEN Goes(t, "order_lock") ELSE UNCHANGED gwThread
    /\ UNCHANGED <<status_, api_key_, api_secret_, order_history_, gwMutex, sentIn>>

\* submitOrder, lines 145-172: the risk check and the request
race_submitOrder_send(t, quantity) ==
    /\ Runs(t, "order_lock")
    /\ gwMutex = "free"
    /\ IF RiskCheckFails(quantity, risk_params_)
       THEN /\ Goes(t, "idle")
            /\ UNCHANGED <<gwMutex, sentIn>>
       ELSE /\ gwMutex' = t
            /\ sentIn' = status_
            /\ gwThread' = [gwThread EXCEPT ![t].pc = "order_reply",
                                            ![t].signed = <<api_key_, api_secret_>>]
    /\ UNCHANGED <<status_, api_key_, api_secret_, order_history_>>

\* submitOrder, lines 174-233
race_submitOrder_end(t, body, quantity) ==
    /\ Runs(t, "order_reply")
    /\ order_history_' = HistoryAfterSubmit(order_history_, SubmitParse(body, 0, quantity))
    /\ gwMutex' = "free"
    /\ Goes(t, "idle")
    /\ UNCHANGED <<status_, api_key_, api_secret_, sentIn>>

\* getBalance, lines 303-307: the status test; the operation takes no lock
race_getBalance(t) ==
    /\ Runs(t, "idle")
    /\ IF status_ = "CONNECTED" THEN Goes(t, "balance_sign") ELSE UNCHANGED gwThread
    /\ UNCHANGED <<status_, api_key_, api_secret_, order_history_, gwMutex, sentIn>>

\* getBalance, line 309: send_signed_request reads api_secret_ (line 524) and
\* api_key_ (line 531) and performs the request; the reply changes nothing
race_getBalance_send(t) ==
    /\ Runs(t, "balance_sign")
    /\ gwThread' = [gwThread EXCEPT ![t].pc = "idle",
                                    ![t].signed = <<api_key_, api_secret_>>]
    /\ UNCHANGED <<status_, api_key_, api_secret_, order_history_, gwMutex, sentIn>>

RaceBodies == {AccountBody(Str("SPOT"), NoBalances), BadBody}
RaceOrderBodies == {OrderBody(Num(1), Str("NEW"), Num(1), Num(1)), BadBody}
RaceKeys == {"KEY", "KEY2"}

RaceNext ==
    \/ \E t \in GwThreads, key \in RaceKeys :
          race_setApiCredentials(t, key, "SECRET" \o key) /\ UNCHANGED outsideRace
    \/ \E t \in GwThreads : race_setApiCredentials_end(t) /\ UNCHANGED outsideRace
    \/ \E t \in GwThreads : race_connect(t) /\ UNCHANGED outsideRace
    \/ \E t \in GwThreads, body \in RaceBodies :
          race_connect_end(t, body) /\ UNCHANGED outsideRace
    \/ \E t \in GwThreads : race_disconnect(t) /\ UNCHANGED outsideRace
    \/ \E t \in GwThreads : race_cleanup(t) /\ UNCHANGED outsideRace
    \/ \E t \in GwThreads : race_submitOrder(t) /\ UNCHANGED outsideRace
    \/ \E t \in GwThreads : race_submitOrder_send(t, 1) /\ UNCHANGED outsideRace
    \/ \E t \in GwThreads, body \in RaceOrderBodies :
          race_submitOrder_end(t, body, 1) /\ UNCHANGED outsideRace
    \/ \E t \in GwThreads : race_getBalance(t) /\ UNCHANGED outsideRace
    \/ \E t \in GwThreads : race_getBalance_send(t) /\ UNCHANGED outsideRace

GwNext ==
    \/ OrderExecutor_initialize /\ UNCHANGED outsideGateway
    \/ OrderExecutor_cleanup /\ UNCHANGED outsideGateway
    \/ \E params \in RiskSettings : setRiskParams(params) /\ UNCHANGED outsideGateway
    \/ \E key \in ApiKeys, secret \in ApiSecrets :
          setApiCredentials(key, secret) /\ UNCHANGED outsideGateway
    \/ \E r \in Replies(AccountBodies) :
          connect(1, r.body, r.transport) /\ UNCHANGED outsideGateway
    \/ disconnect /\ UNCHANGED outsideGateway
    \/ \E quantity \in Quantities, r \in Replies(OrderBodies) :
          submitOrder(SYMBOL_BTC_USDT, 0, 1, quantity, 1, r.body, r.transport)
          /\ UNCHANGED outsideGateway
    \/ \E order_id \in OrderIds, relock \in Relocks :
          \E r1 \in Replies(CancelStatusBodies(order_id)),
             r2 \in Replies(CancelBodies(order_id)) :
          cancelOrder(order_id, 1, r1.body, r2.body, r1.transport, r2.transport, relock)
          /\ UNCHANGED outsideGateway
    \/ \E symbol \in Symbols, r \in Replies(AccountBodies) :
          getBalance(symbol, 1, r.body, r.transport) /\ UNCHANGED outsideGateway
    \/ \E symbol \in Symbols : getPosition(symbol) /\ UNCHANGED outsideGateway
    \/ \E order_id \in OrderIds : \E r \in Replies(OrderBodiesFor(order_id)) :
          getOrderStatus(order_id, 1, r.body, r.transport) /\ UNCHANGED outsideGateway
    \/ \E max_count \in -1..(MaxOrderId + 1) : getOrderHistory(max_count)
          /\ UNCHANGED outsideGateway

    \/ CallerContinues /\ UNCHANGED outsideGateway

Init ==
    /\ StoreInit /\ GwInit /\ StrategyInit /\ EngineInit /\ FetcherInit /\ RaceInit
    /\ ExecutorInit

SpecGateway == Init /\ [][GwNext]_vars

SpecGatewayThreads == Init /\ [][RaceNext]_vars

\* ------------------------------------------------------------ the store
\* The store's caller has its answer and goes on to its next call.
StoreCallerContinues ==
    /\ storeCall.op # "idle"
    /\ storeCall' = StoreRet("idle", 0)
    /\ UNCHANGED <<orderbooks_, orderbooks_map, initialized_, lastUpdate>>

StoreNext ==
    \/ OrderbookManager_initialize /\ UNCHANGED outsideStore
    \/ OrderbookManager_cleanup /\ UNCHANGED outsideStore
    \/ \E ob \in FeedBooks : updateOrderbook(ob) /\ UNCHANGED outsideStore
    \/ \E sym \in Symbols : getOrderbook(sym) /\ UNCHANGED outsideStore
    \/ \E sym \in Symbols : getBestBidAsk(sym) /\ UNCHANGED outsideStore
    \/ StoreCallerContinues /\ UNCHANGED outsideStore

SpecStore == Init /\ [][StoreNext]_vars

\* A stream message arrives while the application's callback is registered
\* (main.cpp:237-239): websocket_write_callback builds the snapshot and the
\* callback stores it with updateOrderbook; a message the parser drops
\* changes nothing.
stream_message(stream_name, doc) ==
    LET r == websocket_write_callback(stream_name, doc, 1)
    IN  /\ storeCall.op = "idle"
        /\ IF r.delivered
           THEN /\ orderbooks_' = VecUpdate(orderbooks_, r.orderbook)
                /\ orderbooks_map' = MapUpdate(orderbooks_map, r.orderbook)
                /\ lastUpdate' = [lastUpdate EXCEPT ![r.orderbook.symbol] = r.orderbook]
                /\ storeCall' = [StoreRet("updateOrderbook", r.orderbook.symbol)
                                    EXCEPT !.stream = stream_name]
           ELSE /\ storeCall' = [StoreRet("dropped", 0) EXCEPT !.stream = stream_name]
                /\ UNCHANGED <<orderbooks_, orderbooks_map, lastUpdate>>
        /\ UNCHANGED initialized_

\* The stream names a server can send: the three pairs, a pair the program
\* does not know, a known pair in capitals, a stream that is not a depth
\* stream
StreamNames ==
    {StreamOf(symbol) : symbol \in Symbols}
    \cup {<<"solusdt", "@depth">>, <<"ETHUSDT", "@depth">>, <<"ethusdt", "@trade">>}

StreamDocs == {Depth(OneLevel, OneLevel), Depth(NoSide, OneLevel), BadDepth}

StreamNext ==
    \/ OrderbookManager_initialize /\ UNCHANGED outsideStore
    \/ OrderbookManager_cleanup /\ UNCHANGED outsideStore
    \/ \E stream_name \in StreamNames, doc \in StreamDocs :
          stream_message(stream_name, doc) /\ UNCHANGED outsideStore
    \/ \E sym \in Symbols : getOrderbook(sym) /\ UNCHANGED outsideStore
    \/ StoreCallerContinues /\ UNCHANGED outsideStore

SpecStream == Init /\ [][StreamNext]_vars

\* C1: once updateOrderbook(s) has returned, every getOrderbook(s.symbol)
\* returns a snapshot equal to s until the next updateOrderbook for that
\* symbol, whatever other store operations (updates of other symbols,
\* derived queries, initialize, cleanup) happen in between; stated for both
\* revisions of the store.
C1_ReadAfterWrite ==
    (storeCall.op = "getOrderbook" /\ lastUpdate[storeCall.symbol] # NoBook)
        => /\ storeCall.vec = lastUpdate[storeCall.symbol]
           /\ storeCall.map = lastUpdate[storeCall.symbol]

\* ------------------------------------------------- the signing specification
\* The calls that send requests, with every symbol, side and clock reading
\* and with few bodies.
SigningBodies ==
    {BadBody, OrderBody(Num(1), Str("FILLED"), Str("1.00000000"), Str("1.00000000")),
     AccountBody(Str("SPOT"), NoBalances)}

SigningNext ==
    \/ \E key \in ApiKeys, secret \in ApiSecrets :
          setApiCredentials(key, secret) /\ UNCHANGED outsideGateway
    \/ \E now \in Times, body \in SigningBodies :
          connect(now, body, "ok") /\ UNCHANGED outsideGateway
    \/ \E symbol \in Symbols, side \in Sides, price \in Prices, quantity \in Quantities,
          now \in Times, body \in SigningBodies :
          submitOrder(symbol, side, price, quantity, now, body, "ok")
          /\ UNCHANGED outsideGateway
    \/ \E order_id \in OrderIds, now \in Times, body \in SigningBodies :
          cancelOrder(order_id, now, body, body, "ok", "ok", "proceed")
          /\ UNCHANGED outsideGateway
    \/ \E symbol \in Symbols, now \in Times, body \in SigningBodies :
          getBalance(symbol, now, body, "ok") /\ UNCHANGED outsideGateway
    \/ \E order_id \in OrderIds, now \in Times, body \in SigningBodies :
          getOrderStatus(order_id, now, body, "ok") /\ UNCHANGED outsideGateway
    \/ CallerContinues /\ UNCHANGED outsideGateway

SpecSigning == Init /\ [][SigningNext]_vars

\* ---------------------------------------------------------------- claims
Sent(method) == \E i \in 1..Len(call.sent) : call.sent[i].method = method

\* C2: on a CONNECTED gateway, submitOrder with quantity > max_order_size
\* returns Failed, sends no request and leaves the order history unchanged.
C2_RiskLimitRejected ==
    [][(call'.op = "submitOrder" /\ status_ = "CONNECTED"
        /\ call'.quantity > risk_params_.max_order_size)
       => (/\ call'.outcome = "returned"
           /\ call'.result.status = "FAILED"
           /\ call'.sent = <<>>
           /\ order_history_' = order_history_)]_vars

C2_Witness ==
    /\ call.op = "submitOrder"
    /\ status_ = "CONNECTED"
    /\ call.quantity > risk_params_.max_order_size
    /\ call.result.status = "FAILED"
    /\ call.sent = <<>>
    /\ order_history_ # <<>>

\* C3: connect() with an empty API key or an empty API secret returns false,
\* leaves the status ERROR and sends no request.
C3_ConnectNeedsCredentials ==
    (call.op = "connect" /\ (api_key_ = "" \/ api_secret_ = ""))
        => (/\ call.outcome = "returned"
            /\ ~call.ok
            /\ status_ = "ERROR"
            /\ call.sent = <<>>)

C3_Witness ==
    /\ call.op = "connect"
    /\ api_key_ = "KEY"
    /\ api_secret_ = ""
    /\ status_ = "ERROR"
    /\ ~call.ok

\* C4: for every body of the probe's response, connect() returns true
\* exactly when the status after the call is CONNECTED and otherwise returns
\* false with the status ERROR; the status is not left at CONNECTING.
C4_ConnectResult ==
    (call.op = "connect" /\ call.outcome # "aborted")
        => (/\ call.outcome = "returned"
            /\ call.ok <=> status_ = "CONNECTED"
            /\ ~call.ok => status_ = "ERROR"
            /\ status_ # "CONNECTING")

\* C5: whenever submitOrder returns Success or Partial, the order history
\* holds an entry under the returned order_id, also when the response
\* encodes executedQty and price as strings.
C5_SuccessIsRecorded ==
    (call.op = "submitOrder" /\ call.outcome = "returned"
     /\ call.result.status \in {"SUCCESS", "PARTIAL"})
        => call.result.order_id \in DOMAIN order_history_

\* C6: for a CONNECTED gateway and quantity <= max_order_size, submitOrder
\* returns Success if the exchange reports the order FILLED, Partial if
\* PARTIALLY_FILLED, and Failed on an error payload or a body that cannot be
\* parsed, carrying the exchange's message when the payload has one.
C6_ResultReflectsFill ==
    (call.op = "submitOrder" /\ call.outcome = "returned" /\ Len(call.bodies) = 1)
        => LET j == call.bodies[1]
               order == j.parse /\ j.orderId.t = "num"
           IN  /\ (order /\ j.status = Str("FILLED")) => call.result.status = "SUCCESS"
               /\ (order /\ j.status = Str("PARTIALLY_FILLED"))
                      => call.result.status = "PARTIAL"
               /\ (~j.parse \/ (~Contains(j.orderId) /\ Contains(j.code)))
                      => call.result.status = "FAILED"
               /\ (j.parse /\ ~Contains(j.orderId) /\ j.code.t = "num" /\ j.msg.t = "str")
                      => call.result.error_message = j.msg.s

\* C7: a submitOrder call that returns Failed leaves the order history as it
\* was before the call.
C7_FailedLeavesHistory ==
    [][(call'.op = "submitOrder" /\ call.op = "idle" /\ call'.outcome = "returned"
        /\ call'.result.status = "FAILED")
       => order_history_' = order_history_]_vars

C7_Witness ==
    /\ call.op = "submitOrder"
    /\ call.outcome = "returned"
    /\ call.result.status = "FAILED"
    /\ Len(call.bodies) = 1
    /\ Contains(call.bodies[1].code)
    /\ order_history_ # <<>>

\* C8: each call of connect, submitOrder or getBalance sends at most one HTTP
\* request, also when the response is an error payload or cannot be parsed.
C8_NoRetry ==
    call.op \in {"connect", "submitOrder", "getBalance"} => Len(call.sent) <= 1

C8_Witness ==
    /\ call.op = "submitOrder"
    /\ Len(call.sent) = 1
    /\ call.bodies = <<BadBody>>
    /\ call.result.status = "FAILED"

\* The parameters each operation gives to send_signed_request, in order
OrderParams(c) ==
    <<"symbol=" \o (CASE c.symbol = 0 -> "BTCUSDT" [] c.symbol = 1 -> "ETHUSDT"
                      [] OTHER -> "BTCETH"),
      "side=" \o (IF c.side = 0 THEN "BUY" ELSE "SELL"),
      "type=" \o (IF c.price > 0 THEN "LIMIT" ELSE "MARKET"),
      "quantity=" \o ToString(c.quantity) \o ".00000000">>
    \o (IF c.price > 0
        THEN <<"timeInForce=GTC", "price=" \o ToString(c.price) \o ".00000000">>
        ELSE <<>>)

GivenParams(c) ==
    CASE c.op = "submitOrder" -> OrderParams(c)
      [] c.op \in {"cancelOrder", "getOrderStatus"} ->
            <<"symbol=BTCUSDT", "orderId=" \o ToString(c.order_id)>>
      [] OTHER -> <<>>

RECURSIVE JoinAmp(_)
JoinAmp(ps) ==
    IF Len(ps) = 0 THEN ""
    ELSE IF Len(ps) = 1 THEN ps[1]
    ELSE ps[1] \o "&" \o JoinAmp(Tail(ps))

Path(c, i) ==
    IF c.op \in {"connect", "getBalance"} THEN "/api/v3/account" ELSE "/api/v3/order"

\* C9: the query of every signed request is P&timestamp=T&signature=S
\* (timestamp=T&signature=S without parameters), the parameters P in the
\* order given, S the HMAC-SHA256 under the account secret of the text before
\* "&signature="; the API key is in the X-MBX-APIKEY header only.
C9_SignedQueryForm ==
    \A i \in 1..Len(call.sent) :
        \E now \in Times :
            LET signed == JoinAmp(GivenParams(call) \o <<"timestamp=" \o ToString(now)>>)
            IN  /\ call.sent[i].url =
                       "https://api.binance.com" \o Path(call, i) \o "?" \o signed
                       \o "&signature=" \o hmac_sha256(api_secret_, signed)
                /\ call.sent[i].headers[1] = "X-MBX-APIKEY: " \o api_key_

C9_Witness ==
    /\ call.op = "submitOrder"
    /\ Len(call.sent) = 1
    /\ call.symbol = SYMBOL_ETH_USDT
    /\ call.side = 1
    /\ call.price > 0
    /\ api_secret_ = "SECRET"

\* C10: on a CONNECTED gateway cancelOrder(id) sends the DELETE request also
\* when id is not in the order history, and returns false only when the
\* gateway is not CONNECTED or the cancel request fails.
C10_CancelAlwaysAttempted ==
    (call.op = "cancelOrder" /\ status_ = "CONNECTED"
     /\ call.outcome \notin {"aborted", "deadlocked"})
        => /\ call.order_id \notin DOMAIN order_history_ => Sent("DELETE")
           /\ (call.outcome = "returned" /\ ~call.ok) => Sent("DELETE")

\* ------------------------------------------ the order-lifecycle specification
\* A gateway with credentials whose orders are submitted, polled and
\* cancelled; the exchange answers a new order with numbers and a query or a
\* cancel with decimal strings.
PolledIds == 1..MaxPolledId

SubmitReplies ==
    {OrderBody(Num(id), Str(st), Num(1), Num(1)) :
        id \in PolledIds, st \in {"FILLED", "PARTIALLY_FILLED", "NEW"}}
    \cup {ErrorBody(Num(-2010), Str("Order rejected"))}

PollReplies(id) ==
    {OrderBody(Num(id), Str(st), Str("1.00000000"), Str("1.00000000")) :
        st \in OrderStates \cup {"REJECTED"}}
    \cup {BadBody, ErrorBody(Num(-2013), Str("Order does not exist."))}

CancelReplies(id) ==
    {OrderBody(Num(id), Str("CANCELED"), Str("0.00000000"), Str("1.00000000")),
     ErrorBody(Num(-2011), Str("Unknown order sent."))}

OrdersNext ==
    \/ setApiCredentials("KEY", "SECRET") /\ UNCHANGED outsideGateway
    \/ connect(1, AccountBody(Str("SPOT"), NoBalances), "ok") /\ UNCHANGED outsideGateway
    \/ disconnect /\ UNCHANGED outsideGateway
    \/ \E r \in Replies(SubmitReplies) :
          submitOrder(SYMBOL_BTC_USDT, 0, 1, 1, 1, r.body, r.transport)
          /\ UNCHANGED outsideGateway
    \/ \E order_id \in PolledIds : \E r \in Replies(PollReplies(order_id)) :
          getOrderStatus(order_id, 1, r.body, r.transport) /\ UNCHANGED outsideGateway
    \/ \E order_id \in PolledIds, relock \in Relocks :
          \E b1 \in PollReplies(order_id), b2 \in CancelReplies(order_id) :
          cancelOrder(order_id, 1, b1, b2, "ok", "ok", relock) /\ UNCHANGED outsideGateway
    \/ \E symbol \in Symbols :
          getBalance(symbol, 1, AccountBody(Str("SPOT"), NoBalances), "ok")
          /\ UNCHANGED outsideGateway
    \/ \E symbol \in Symbols : getPosition(symbol) /\ UNCHANGED outsideGateway
    \/ \E max_count \in 0..MaxPolledId : getOrderHistory(max_count)
          /\ UNCHANGED outsideGateway
    \/ CallerContinues /\ UNCHANGED outsideGateway

SpecOrders == Init /\ [][OrdersNext]_vars

Queries == {"getOrderStatus", "getOrderHistory", "getBalance", "getPosition"}

QueryStep == call.op = "idle" /\ call'.op \in Queries

RecordedState(e) ==
    CASE e.status = "SUCCESS" -> "Filled"
      [] e.status = "PARTIAL" -> "PartiallyFilled"
      [] e.status = "FAILED" /\ e.error_message \in {"Order cancelled", "Order CANCELED"}
            -> "Cancelled"
      [] e.status = "FAILED" /\ e.error_message = "Order REJECTED" -> "Rejected"
      [] OTHER -> "Pending"

\* C12: once an order is recorded as filled, cancelled or rejected, no later
\* status poll or cancel changes its recorded state, and no order returns to
\* pending after leaving it.
C12_RecordedStateMonotonic ==
    [][(call.op = "idle" /\ call'.op \in {"getOrderStatus", "cancelOrder"})
       => \A k \in DOMAIN order_history_ \cap DOMAIN order_history_' :
             LET before == RecordedState(order_history_[k])
                 after == RecordedState(order_history_'[k])
             IN  /\ before \in {"Filled", "Cancelled", "Rejected"} => after = before
                 /\ before # "Pending" => after # "Pending"]_vars

\* The status changes the specification's diagram allows one operation to
\* make: connect leads from IDLE, ERROR or DISCONNECTED through CONNECTING to
\* CONNECTED or ERROR (or straight to ERROR), disconnect from CONNECTED to
\* DISCONNECTED.
DiagramSteps ==
    ({"IDLE", "ERROR", "DISCONNECTED", "CONNECTING"} \X {"CONNECTING", "CONNECTED", "ERROR"})
    \cup {<<"CONNECTED", "DISCONNECTED">>}

\* C13 as stated: the status changes only along IDLE -> CONNECTING ->
\* CONNECTED or ERROR, CONNECTED -> DISCONNECTED and ERROR/DISCONNECTED ->
\* CONNECTING, whichever of connect, disconnect and cleanup is called in
\* whichever status.
C13_StatusDiagram ==
    [][status_' # status_ => <<status_, status_'>> \in DiagramSteps]_vars

\* C13, amended: only initialize, cleanup, connect and disconnect change the
\* status, and each sets it whatever it was before: initialize and cleanup
\* to IDLE, disconnect to DISCONNECTED, connect to ERROR (empty credentials or
\* a failed probe), to CONNECTED (a well-formed account response), or to
\* CONNECTING when connect does not return.
C13_StatusSetByOperation ==
    [][call.op = "idle" /\ call'.op # "idle"
       => CASE call'.op \in {"initialize", "cleanup"} -> status_' = "IDLE"
            [] call'.op = "disconnect" -> status_' = "DISCONNECTED"
            [] call'.op = "connect" ->
                  /\ status_' \in {"ERROR", "CONNECTED", "CONNECTING"}
                  /\ status_' = "CONNECTED" <=> (call'.outcome = "returned" /\ call'.ok)
                  /\ status_' = "CONNECTING" <=> call'.outcome \in {"threw", "aborted"}
            [] OTHER -> status_' = status_]_vars

C13_Witness ==
    /\ call.op = "disconnect"
    /\ status_ = "DISCONNECTED"
    /\ api_key_ = ""
    /\ order_history_ = <<>>

SpecStrategy == Init /\ [][StrategyNext]_vars

SpecIndexing == Init /\ [][IndexingNext]_vars

SpecEngine == Init /\ [][EngineNext]_vars

SpecCleanup == Init /\ [][CleanupNext]_vars

SpecFetcher == Init /\ [][FetcherNext]_vars

\* The fetcher as main.cpp uses it: one thread makes every call
Main == "c1"
IngestionNext ==
    \/ fetcher_initialize(Main) /\ UNCHANGED outsideFetcher
    \/ setOrderbookCallback(Main, "cb") /\ UNCHANGED outsideFetcher
    \/ \E symbol \in StartSymbols : start_call(Main, symbol) /\ UNCHANGED outsideFetcher
    \/ start_enter(Main) /\ UNCHANGED outsideFetcher
    \/ \E created \in BOOLEAN : start_spawn(Main, created) /\ UNCHANGED outsideFetcher
    \/ stop_call(Main) /\ UNCHANGED outsideFetcher
    \/ stop_flag(Main) /\ UNCHANGED outsideFetcher
    \/ stop_ws(Main) /\ UNCHANGED outsideFetcher
    \/ stop_ws_join(Main) /\ UNCHANGED outsideFetcher
    \/ \E race \in JoinRaces : stop_thread(Main, race) /\ UNCHANGED outsideFetcher
    \/ stop_join(Main) /\ UNCHANGED outsideFetcher
    \/ \E id \in PollerIds : poll_check(id) /\ UNCHANGED outsideFetcher
    \/ \E id \in PollerIds, fetched \in BOOLEAN, doc \in FetcherDocs,
          into \in UninitializedBooks :
          poll_fetch(id, fetched, doc, into) /\ UNCHANGED outsideFetcher
    \/ \E id \in PollerIds : poll_deliver(id) /\ UNCHANGED outsideFetcher
    \/ \E id \in PollerIds : poll_return(id) /\ UNCHANGED outsideFetcher
    \/ \E doc \in FetcherDocs : ws_message(doc) /\ UNCHANGED outsideFetcher
    \/ ws_deliver /\ UNCHANGED outsideFetcher
    \/ ws_return /\ UNCHANGED outsideFetcher
    \/ ws_exit /\ UNCHANGED outsideFetcher

\* The scheduler runs every thread that can run: an ingestion thread takes
\* its next step, and so does the caller while it holds the fetcher's mutex.
IngestionStep ==
    \E id \in PollerIds :
        \/ poll_check(id)
        \/ \E fetched \in BOOLEAN, doc \in FetcherDocs, into \in UninitializedBooks :
              poll_fetch(id, fetched, doc, into)
        \/ poll_deliver(id)
        \/ poll_return(id)
HolderStep == \E created \in BOOLEAN : start_spawn(Main, created)
SpecIngestion ==
    /\ Init
    /\ [][IngestionNext]_vars
    /\ WF_fetcherVars(IngestionStep)
    /\ WF_fetcherVars(HolderStep)

\* The same single caller, which also replaces the callback it registered
DeliveryNext ==
    \/ fetcher_initialize(Main) /\ UNCHANGED outsideFetcher
    \/ \E callback \in Callbacks :
          setOrderbookCallback(Main, callback) /\ UNCHANGED outsideFetcher
    \/ \E symbol \in StartSymbols : start_call(Main, symbol) /\ UNCHANGED outsideFetcher
    \/ start_enter(Main) /\ UNCHANGED outsideFetcher
    \/ \E created \in BOOLEAN : start_spawn(Main, created) /\ UNCHANGED outsideFetcher
    \/ stop_call(Main) /\ UNCHANGED outsideFetcher
    \/ stop_flag(Main) /\ UNCHANGED outsideFetcher
    \/ stop_ws(Main) /\ UNCHANGED outsideFetcher
    \/ stop_ws_join(Main) /\ UNCHANGED outsideFetcher
    \/ \E race \in JoinRaces : stop_thread(Main, race) /\ UNCHANGED outsideFetcher
    \/ stop_join(Main) /\ UNCHANGED outsideFetcher
    \/ \E id \in PollerIds : poll_check(id) /\ UNCHANGED outsideFetcher
    \/ \E id \in PollerIds, fetched \in BOOLEAN, doc \in FetcherDocs,
          into \in UninitializedBooks :
          poll_fetch(id, fetched, doc, into) /\ UNCHANGED outsideFetcher
    \/ \E id \in PollerIds : poll_deliver(id) /\ UNCHANGED outsideFetcher
    \/ \E id \in PollerIds : poll_return(id) /\ UNCHANGED outsideFetcher
    \/ \E doc \in FetcherDocs : ws_message(doc) /\ UNCHANGED outsideFetcher
    \/ ws_deliver /\ UNCHANGED outsideFetcher
    \/ ws_return /\ UNCHANGED outsideFetcher
    \/ ws_exit /\ UNCHANGED outsideFetcher

SpecDelivery == Init /\ [][DeliveryNext]_vars

\* ------------------------------------------------------ claims: strategies
\* The history the last processMarketData call worked on, as it left it
HistoryOf(kind) == strategy[kind].price_history_[stratCall.book.symbol]

Evaluated(kind, samples) ==
    /\ stratCall.op = "processMarketData"
    /\ stratCall.ran
    /\ Len(HistoryOf(kind)) >= samples

ConstantWindow(h, n) == \A i \in 1..n : LastN(h, n)[i] = h[Len(h)]

\* C14: a RUNNING mean-reversion strategy holding at least lookback_period
\* samples answers NONE when the population standard deviation of the window
\* is zero (a constant price yields NONE on every tick), and otherwise SELL
\* when the z-score is above the threshold, BUY when it is below the negated
\* threshold, NONE in between.
C14_MeanReversionSignal ==
    LET h == HistoryOf("MEAN_REVERSION")
        params == strategy["MEAN_REVERSION"].params_
    IN  Evaluated("MEAN_REVERSION", params.lookback_period) =>
            stratCall.signal["MEAN_REVERSION"] =
                IF ConstantWindow(h, params.lookback_period) THEN "NONE"
                ELSE MeanReversionSignal(h, params, 0)

C16_RSIRange ==
    LET h == HistoryOf("RSI")
        period == strategy["RSI"].params_.rsi_period
        falls == {i \in (Len(h) - period + 1)..Len(h) : h[i] < h[i - 1]}
    IN  Evaluated("RSI", period + 1) /\ period >= 1 =>
            /\ stratCall.rsi.den > 0
            /\ 0 <= stratCall.rsi.num
            /\ stratCall.rsi.num <= 100 * stratCall.rsi.den
            /\ falls = {} => stratCall.rsi.num = 100 * stratCall.rsi.den

C16_Witness ==
    /\ Evaluated("RSI", strategy["RSI"].params_.rsi_period + 1)
    /\ 0 < stratCall.rsi.num
    /\ stratCall.rsi.num < 100 * stratCall.rsi.den

\* C17: a RUNNING strategy of any of the three classes ignores a snapshot
\* whose bid_count or ask_count is 0: the histories stay as they were and the
\* signal is NONE.
C17_EmptySideIgnored ==
    [][(/\ stratCall.op = "idle"
        /\ stratCall'.op = "processMarketData"
        /\ stratCall'.ran
        /\ stratCall'.book.bid_count = 0 \/ stratCall'.book.ask_count = 0)
       => \A k \in StrategyKinds :
             /\ strategy'[k].price_history_ = strategy[k].price_history_
             /\ stratCall'.signal[k] = "NONE"]_vars

\* C18: each history holds at most 100 samples and is exactly the mid-prices
\* of the most recent min(n, 100) snapshots of its symbol that had both
\* sides, oldest first; snapshots of one symbol leave the others' histories
\* alone.
C18_HistoryIsRecentMids ==
    \A k \in StrategyKinds, s \in Symbols :
        LET h == strategy[k].price_history_[s]
            n == Len(accepted[s])
        IN  /\ Len(h) <= 100
            /\ h = LastN(accepted[s], IF n < 100 THEN n ELSE 100)

\* --------------------------------------------------------- claims: engine
EngineCalled(op) == engineCall.op = "idle" /\ engineCall'.op = op

\* C19: in each revision start() on an engine with no strategy set changes
\* nothing (the status does not become RUNNING) and reports an error.
C19_StartNeedsStrategy ==
    [][EngineCalled("start") =>
        /\ engine.strategy_ = "null" =>
              /\ engine' = engine
              /\ held' = held
              /\ engineCall'.error["engine"]
        /\ engineImpl.strategy_ = "null" /\ engineImpl.caller = "running" =>
              /\ engineImpl' = engineImpl
              /\ heldImpl' = heldImpl
              /\ engineCall'.error["impl"]]_vars

Recorded(objs, ptr, ob) ==
    objs'[ptr].price_history_[ob.symbol] =
        Append(objs[ptr].price_history_[ob.symbol], MidPrice(ob))

\* C20: setStrategy(s) on a RUNNING engine cleans up the strategy held
\* before, and the next processMarketData is evaluated by s, which records
\* the mid-price, with no start() in between.
C20_SwapWhileRunning ==
    [][/\ EngineCalled("setStrategy") /\ engineCall'.strategy # "null" =>
            /\ engine.status_ = "RUNNING" /\ engine.strategy_ # "null" =>
                  held'[engine.strategy_].price_history_ =
                      StrategyCleanup(held[engine.strategy_]).price_history_
            /\ (/\ engineImpl.status_ = "RUNNING"
                /\ engineImpl.strategy_ # "null"
                /\ engineImpl.caller = "running") =>
                  heldImpl'[engineImpl.strategy_].price_history_ =
                      StrategyCleanup(heldImpl[engineImpl.strategy_]).price_history_
       /\ EngineCalled("processMarketData") =>
            /\ swapped["engine"] => Recorded(held, engine.strategy_, engineCall'.book)
            /\ swapped["impl"] => Recorded(heldImpl, engineImpl.strategy_, engineCall'.book)]_vars

\* C21: while an engine is STOPPED or PAUSED processMarketData changes
\* nothing: the strategy it holds keeps its history and is not asked for a
\* signal, whatever start, stop, pause and setStrategy calls came before.
C21_ForwardsOnlyWhileRunning ==
    [][EngineCalled("processMarketData") =>
        /\ engine.status_ # "RUNNING" => held' = held
        /\ engineImpl.status_ # "RUNNING" => heldImpl' = heldImpl]_vars

\* A snapshot arrives at a PAUSED or STOPPED engine whose strategy is itself
\* RUNNING, in both revisions.
C21_Witness ==
    /\ engineCall.op = "processMarketData"
    /\ engine.status_ # "RUNNING"
    /\ engine.strategy_ # "null"
    /\ held[engine.strategy_].status_ = "RUNNING"
    /\ engineImpl.status_ # "RUNNING"
    /\ engineImpl.strategy_ # "null"
    /\ heldImpl[engineImpl.strategy_].status_ = "RUNNING"

\* ------------------------------------------------- the store and its feed
DepthDocs ==
    {Depth(b, a) : b \in {NoSide, OneLevel}, a \in {NoSide, OneLevel}}
    \cup {Depth(b, OneLevel) :
            b \in {LongSide, NotArraySide, SideArray(<<ShortEntry>>),
                   SideArray(<<NonStringEntry>>),
                   SideArray(<<Entry("x", "1.00000000")>>)}}
    \cup {BadDepth}

\* A snapshot a caller fills in itself with counts beyond the arrays
OversizedBook(sym) ==
    orderbook_t(sym, BidSide(1, 1), AskSide(1, 1), DepthCapacity + 1, DepthCapacity + 1, 1)

QuerySymbols == {SYMBOL_BTC_USDT, SYMBOL_ETH_USDT}
QueryBooks == {ob \in FeedBooks : ob.symbol = SYMBOL_ETH_USDT /\ ob.timestamp = 1}
DepthLevels == {-1, 0, 1, MaxLevels, DepthCapacity + 1}
PastValues == {0, 7}

QueriesNext ==
    \/ OrderbookManager_cleanup /\ UNCHANGED outsideStore
    \/ \E ob \in QueryBooks : updateOrderbook(ob) /\ UNCHANGED outsideStore
    \/ updateOrderbook(OversizedBook(SYMBOL_ETH_USDT)) /\ UNCHANGED outsideStore
    \/ \E doc \in DepthDocs, into \in UninitializedBooks, fetched \in BOOLEAN :
          LET r == rest_client_get_orderbook(SYMBOL_BTC_USDT, into, fetched, doc, 1)
          IN  /\ r.result = 0
              /\ updateOrderbook(r.orderbook)
              /\ UNCHANGED outsideStore
    \/ \E doc \in DepthDocs :
          LET r == websocket_write_callback(StreamOf(SYMBOL_BTC_USDT), doc, 1)
          IN  /\ r.delivered
              /\ updateOrderbook(r.orderbook)
              /\ UNCHANGED outsideStore
    \/ updateOrderbook(generateOrderbook(SYMBOL_BTC_USDT, 1)) /\ UNCHANGED outsideStore
    \/ \E sym \in QuerySymbols : getMidPrice(sym) /\ UNCHANGED outsideStore
    \/ \E sym \in QuerySymbols : getSpread(sym) /\ UNCHANGED outsideStore
    \/ \E sym \in QuerySymbols : isValid(sym) /\ UNCHANGED outsideStore
    \/ \E op \in {"getBidDepth", "getAskDepth"}, sym \in QuerySymbols,
          levels \in DepthLevels, past \in PastValues :
          getDepth(op, sym, levels, past) /\ UNCHANGED outsideStore
    \/ StoreCallerContinues /\ UNCHANGED outsideStore

SpecQueries == Init /\ [][QueriesNext]_vars

\* The snapshot each revision holds for a symbol
StoredBooks(sym) == {VecGet(orderbooks_, sym), MapGet(orderbooks_map, sym)}

\* C22: every snapshot a feed parser produces (stream message, REST depth
\* response, synthetic generator) and every snapshot the store holds has
\* bid_count <= 20 and ask_count <= 20.
C22_CountsWithinArrays ==
    \A sym \in Symbols : \A ob \in StoredBooks(sym) \cup {lastUpdate[sym]} :
        ob # NoBook => ob.bid_count <= 20 /\ ob.ask_count <= 20

SameRatio(x, y) == x.num * y.den = y.num * x.den

\* The snapshot the revision rev (1: vector, 2: map) holds for the symbol of
\* the last query
Stored(rev) ==
    IF rev = 1 THEN VecGet(orderbooks_, storeCall.symbol)
    ELSE MapGet(orderbooks_map, storeCall.symbol)

BothSides(ob) == ob.bid_count > 0 /\ ob.ask_count > 0

\* C23: in each revision getMidPrice returns (bids[0].price + asks[0].price)/2
\* and getSpread returns asks[0].price - bids[0].price of the stored snapshot
\* when both sides are non-empty, best prices of 0 included, and both return
\* 0 when a side is empty.
C23_MidPriceAndSpread ==
    \A rev \in {1, 2} :
        LET bid == FirstPrice(Stored(rev).bids)
            ask == FirstPrice(Stored(rev).asks)
        IN  /\ storeCall.op = "getMidPrice" =>
                 SameRatio(storeCall.value[rev],
                           IF BothSides(Stored(rev)) THEN Ratio(bid + ask, 2) ELSE Zero)
            /\ storeCall.op = "getSpread" =>
                 SameRatio(storeCall.value[rev],
                           IF BothSides(Stored(rev)) THEN Ratio(ask - bid, 1) ELSE Zero)

\* C24: in each revision isValid is true only if the stored snapshot has both
\* sides non-empty and both best prices above 0, and it is false for a symbol
\* that has received no update.
C24_ValidMeansPriced ==
    \A rev \in {1, 2} :
        storeCall.op = "isValid" /\ storeCall.value[rev] =>
            /\ lastUpdate[storeCall.symbol] # NoBook
            /\ BothSides(Stored(rev))
            /\ FirstPrice(Stored(rev).bids) > 0
            /\ FirstPrice(Stored(rev).asks) > 0

\* C25: getBidDepth and getAskDepth return the sum of the quantities of the
\* first min(levels, count) levels of that side of the stored snapshot, for
\* every levels value, and read no level at an index >= 20.
C25_DepthOfFirstLevels ==
    storeCall.op \in {"getBidDepth", "getAskDepth"} =>
        /\ ~storeCall.beyond
        /\ \A rev \in {1, 2} :
              LET side == IF storeCall.op = "getBidDepth"
                          THEN Stored(rev).bids ELSE Stored(rev).asks
                  count == IF storeCall.op = "getBidDepth"
                           THEN Stored(rev).bid_count ELSE Stored(rev).ask_count
                  first == 1..Min(storeCall.levels, count)
              IN  storeCall.value[rev] = SumSeq([k \in first |-> SlotOf(side, k).quantity])

\* ---- MarketDataFetcher: start() and stop() from several threads
Ingesting == {id \in PollerIds : poller[id].pc \notin {"unborn", "exited"}}

\* C26: whatever start() calls the threads make and however they interleave,
\* the fetcher has at most one ingestion thread and no start() assigns a new
\* thread to data_thread while it still holds one (which ends the process).
C26_OneIngestionThread ==
    /\ fetcherProc = "running"
    /\ Cardinality(Ingesting) <= 1

\* C27: once a stop() has returned, and until start() is called again, the
\* registered callback is not invoked, neither by an ingestion thread nor by
\* the worker of the websocket client.
C27_QuietAfterStop == [][quiet => delivery' = delivery]_vars

\* C28: stop() calls from several threads, one after another or at once,
\* leave the ingestion thread joined by at most one caller: join() is never
\* called on a thread another caller is joining.
C28_JoinedByOneCaller == \A id \in PollerIds : joins[id] <= 1

\* C29: STOPPED is terminal: once a stop() has returned, no operation, start()
\* included, makes the source run again.
C29_StoppedIsTerminal == stopCompleted => ~fetcher.is_running

\* ---- MarketDataFetcher: the ingestion loop
Delivering(id) == poller[id].pc = "deliver" /\ poller[id].callback # "null"
RestSnapshots(symbol) ==
    {rest_client_get_orderbook(symbol, into, TRUE, doc, 1).orderbook :
        into \in UninitializedBooks, doc \in {d \in FetcherDocs : d # BadDepth}}
IterationDelivers ==
    \A id \in PollerIds :
        poller[id].pc = "deliver" =>
            LET it == poller[id]
            IN  /\ it.orderbook.symbol \in StartSymbols
                /\ Alive /\ Starting = {} => it.orderbook.symbol = fetcher.current_symbol
                /\ it.data_fetched => it.orderbook \in RestSnapshots(it.orderbook.symbol)
                /\ ~it.data_fetched =>
                       it.orderbook = generateOrderbook(it.orderbook.symbol, 1)
SourceRuns == Alive /\ fetcher.is_running /\ fetcher.orderbook_callback # "null"

\* C30: every iteration of the ingestion loop hands the callback one snapshot
\* of the subscribed symbol, the REST snapshot when the fetch succeeded and
\* the generated one otherwise; and if the source stays running with a
\* callback registered, the ingestion thread invokes the callback again and
\* again, whether or not any REST fetch or the stream ever succeeds.
C30_LoopKeepsDelivering ==
    /\ []IterationDelivers
    /\ <>[]SourceRuns => []<>(\E id \in PollerIds : Delivering(id))
C30_Witness ==
    \E id \in PollerIds :
        /\ Delivering(id)
        /\ ~poller[id].data_fetched
        /\ fetcher.rest_client_ptr = "client"
        /\ delivery.by = "poll"

\* ---- MarketDataFetcher: who is handed a snapshot, and by whom
InCallback ==
    {<<"poll", id>> : id \in {p \in PollerIds : poller[p].pc = "callback"}}
        \cup (IF wsClient.pc = "callback" THEN {<<"stream", 0>>} ELSE {})

\* C31: a snapshot is delivered to the callback that is registered at the
\* moment of the invocation: once setOrderbookCallback(fn) has returned, no
\* invocation goes to the callback registered before.
C31_DeliveredToRegistered ==
    [][delivery' # delivery => delivery'.to = fetcher.orderbook_callback]_vars

\* C32: the callback is invoked from one execution unit: no invocation
\* begins while another one has not returned.
C32_OneInvocationAtATime == Cardinality(InCallback) <= 1

\* C34: a REST reply that cannot be parsed is dropped: the iteration that
\* received it hands no snapshot to the callback.
C34_UnparsedIsDropped ==
    \A id \in PollerIds : poller[id].pc = "callback" => poller[id].response # "unparsed"

\* ---- gateway: exceptions and threads
Guarded == {"connect", "submitOrder", "cancelOrder", "getOrderStatus", "getBalance",
            "getOrderHistory"}

\* C33: whatever body the exchange returns and whatever arguments are
\* passed, no call of connect, submitOrder, cancelOrder, getOrderStatus,
\* getBalance or getOrderHistory ends with an exception leaving the operation.
C33_NoExceptionLeaves == call.op \in Guarded => call.outcome # "threw"

\* C37: cancelOrder on a CONNECTED gateway returns: the caller is never left
\* waiting for the gateway's mutex, which it holds itself.
C37_CancelReturns == call.op = "cancelOrder" => call.outcome # "deadlocked"

\* C35: an order request is sent only while the gateway is CONNECTED,
\* whatever disconnect(), cleanup() or connect() calls other threads make
\* around the submitOrder.
C35_SentWhileConnected == sentIn \in {"none", "CONNECTED"}

RaceSecrets == {<<key, "SECRET" \o key>> : key \in RaceKeys} \cup {<<"", "">>}

\* C36: no operation reads the API key or the secret while setApiCredentials
\* is writing them: each request is signed with a key and a secret that one
\* setApiCredentials call set together.
C36_CredentialsUnderMutex ==
    \A t \in GwThreads : gwThread[t].signed \in RaceSecrets

\* C38: cleanup() of the engine and of the executor of
\* strategy_engine_impl.cpp returns from every state: the caller is never left
\* waiting for the mutex it holds.
C38_CleanupReturns ==
    /\ engineImpl.caller # "deadlocked"
    /\ executorImpl.caller # "deadlocked"

ReadsStored(kind) ==
    LET size == Len(HistoryOf(kind))
    IN  Reads(kind, size, strategy[kind].params_) \subseteq Samples(size)

\* C39: whatever the periods are (short_period above long_period, periods
\* of 0, below 0 or above 100) and whatever snapshots came, a strategy that
\* processed a snapshot read its price history only at positions 0..size-1.
C39_IndexedWithinHistory ==
    stratCall.op = "processMarketData" /\ stratCall.ran =>
        \A kind \in StrategyKinds : ReadsStored(kind)

\* C40: a depth message of the stream is stored only under the symbol whose
\* lowercased pair name occurs in the message's stream name; a message whose
\* stream name holds none of the three names is stored under no symbol and
\* so replaces no stored book.
C40_StoredUnderNamedSymbol ==
    storeCall.op = "updateOrderbook" /\ storeCall.stream # <<>> =>
        Occurs(PairName(storeCall.symbol), storeCall.stream)

====
